---- MODULE Spec2Model ----
(***************************************************************************)
(* readwebform: the ephemeral form server and its lifecycle.               *)
(*                                                                         *)
(* The model follows src/src/readwebform/server.py.  Four kinds of thread  *)
(* run concurrently: the caller inside FormServer.serve(), the accept-loop *)
(* thread (socketserver.TCPServer.serve_forever, which runs every request  *)
(* handler inline, one after the other), the threading.Timer threads that  *)
(* run FormServer._on_timeout, and the delayed_shutdown threads started by *)
(* successful POST handlers.  Every read or write of a FormServer field is *)
(* a step of its own, so that all interleavings of the threads are         *)
(* explored.  Time is a discrete tick that counts the timers down.         *)
(***************************************************************************)
EXTENDS Integers, Sequences, FiniteSets, TLC

(* ------------------------------ bounds --------------------------------- *)

\* connections the accept loop takes during one run
MaxRequests == 2

\* connections the accept loop takes in the runs checked for progress
MaxLiveRequests == 1

\* FormServer.timeout, in ticks
Timeout == 2

\* name=value pairs in one POST body
MaxPairs == 2

\* the largest size limit configured, in bytes
MaxSize == 2

\* parts in one multipart body
MaxParts == 1

(* ------------------------- values and inputs --------------------------- *)

\* secrets.token_hex(16): the run's token, and another value a client may send
RunToken == "t1"
Tokens == {RunToken, "t2"}

\* the field name the handler looks the token up under
CsrfField == "_csrf_token"

\* the content of a field that is not valid UTF-8
NotUtf8 == "\\xff"

\* name=value pairs a client can put into a body
Pairs == ({CsrfField} \X Tokens) \cup {<<"x", "v">>}

\* the same, and a field whose content is not valid UTF-8
BytePairs == Pairs \cup {<<"x", NotUtf8>>}

RECURSIVE SeqsUpTo(_, _)
SeqsUpTo(S, n) ==
    IF n = 0 THEN {<<>>}
    ELSE LET shorter == SeqsUpTo(S, n - 1)
         IN  shorter \cup {Append(s, e) : s \in {t \in shorter : Len(t) = n - 1}, e \in S}

Bodies == SeqsUpTo(Pairs, MaxPairs)
ByteBodies == SeqsUpTo(BytePairs, MaxPairs)

\* a str value of FormData.fields
StrVal(v) == [kind |-> "str", vals |-> <<v>>]

\* FormData().fields of a fresh FormData
EmptyFields == [n \in {} |-> StrVal("")]

\* variant of AddField: a repeated name keeps its last value
AddFieldOverwrites(fields, name, value) ==
    [n \in DOMAIN fields \cup {name} |->
        IF n = name THEN StrVal(value) ELSE fields[n]]

\* FormData.add_field: a repeated name promotes the value to a list
AddField(fields, name, value) ==
    IF name \in DOMAIN fields
    THEN [n \in DOMAIN fields |->
            IF n = name
            THEN [kind |-> "list", vals |-> Append(fields[n].vals, value)]
            ELSE fields[n]]
    ELSE [n \in DOMAIN fields \cup {name} |->
            IF n = name THEN StrVal(value) ELSE fields[n]]

\* parse_multipart on the content of a field: content.decode('utf-8'), and
\* the empty string when that raises UnicodeDecodeError
DecodeValue(v) == IF v = NotUtf8 THEN "" ELSE v

\* the decoders: every pair of the body is added in submission order
RECURSIVE ParseFields(_)
ParseFields(pairs) ==
    IF pairs = <<>> THEN EmptyFields
    ELSE LET n == Len(pairs)
         IN  AddField(ParseFields(SubSeq(pairs, 1, n - 1)),
                      pairs[n][1], DecodeValue(pairs[n][2]))

\* form_data.fields.get('_csrf_token', '')
SubmittedToken(fields) ==
    IF CsrfField \in DOMAIN fields THEN fields[CsrfField] ELSE StrVal("")

\* variant of PopCsrf: the token stays among the fields
PopCsrfKeeps(fields) == fields

\* form_data.fields.pop('_csrf_token', None)
PopCsrf(fields) == [n \in DOMAIN fields \ {CsrfField} |-> fields[n]]

\* the request line and headers a client can send.  clen is the
\* Content-Length header seen by the handler (invalid: int() raises; over:
\* above the effective cap), read_ok whether rfile.read succeeds.
Req(method, path, clen, read_ok) ==
    [method |-> method, path |-> path, clen |-> clen, read_ok |-> read_ok]

Requests ==
    {Req("GET", p, "ok", TRUE) : p \in {"endpoint", "other"}}
    \cup {Req("POST", "other", "ok", TRUE)}
    \cup {Req("POST", "endpoint", c, TRUE) : c \in {"invalid", "over"}}
    \cup {Req("POST", "endpoint", "ok", ok) : ok \in BOOLEAN}

\* the body of a POST as the decoders see it: decode is the outcome of
\* parse_multipart / parse_urlencoded (ok, or the class of the exception
\* raised), pairs the fields of a body that decodes
Body(decode, pairs) == [decode |-> decode, pairs |-> pairs]

PostBodies ==
    {Body(d, <<>>) : d \in {"ValueError", "Exception"}}
    \cup {Body("ok", b) : b \in Bodies}

\* the bodies of clients that also send content that is not valid UTF-8
BytePostBodies ==
    {Body(d, <<>>) : d \in {"ValueError", "Exception"}}
    \cup {Body("ok", b) : b \in ByteBodies}

\* the file parts of a body that decodes: the field names of the parts in
\* submission order, their number, and whether the upload directory takes
\* the files written to it
Upload(names, save_ok) ==
    [names |-> names, nfiles |-> Len(names), save_ok |-> save_ok]

Uploads ==
    {Upload(<<>>, TRUE), Upload(<<"f">>, TRUE), Upload(<<"f">>, FALSE),
     Upload(<<"f", "f">>, TRUE)}

\* FormData.add_file: a repeated name promotes the entry to a list
AddFile(files, name) ==
    IF name \in DOMAIN files
    THEN [n \in DOMAIN files |->
            IF n = name THEN [kind |-> "list", n |-> files[n].n + 1]
            ELSE files[n]]
    ELSE [n \in DOMAIN files \cup {name} |->
            IF n = name THEN [kind |-> "file", n |-> 1] ELSE files[n]]

\* FormData().files after parse_multipart has added the file parts
RECURSIVE FilesOf(_)
FilesOf(names) ==
    IF names = <<>> THEN [n \in {} |-> [kind |-> "file", n |-> 0]]
    ELSE AddFile(FilesOf(SubSeq(names, 1, Len(names) - 1)), names[Len(names)])

\* save_uploaded_file(uploaded_file, ...) raises for an entry of
\* form_data.files: the entry is a list, which has no attribute filename,
\* or the file cannot be written
SaveRaises(u) ==
    \/ \E n \in DOMAIN FilesOf(u.names) : FilesOf(u.names)[n].kind = "list"
    \/ u.nfiles > 0 /\ ~u.save_ok

\* an HTTP response: the request it answers, the status code and the page
\* that carries it
Response(rid, code, page) == [rid |-> rid, code |-> code, page |-> page]
NoResponse == Response(0, 0, "none")

\* a FormData object, identified by the request that created it; rid 0 is None
FormDataOf(rid, fields) == [rid |-> rid, fields |-> fields]
NoForm == FormDataOf(0, EmptyFields)

\* a file_metadata dict, identified by the request that built it; rid 0 is
\* the empty dict of __init__
MetaOf(rid, nfiles) == [rid |-> rid, nfiles |-> nfiles]
EmptyMeta == MetaOf(0, 0)

\* a threading.Timer: st is waiting, cancelled, or the position of the timer
\* thread inside _on_timeout; rem the ticks left before it expires
TimerRec(st, rem) == [st |-> st, rem |-> rem]

\* what serve() hands back
ResultOf(s, f, m) == [success |-> s, form_data |-> f, file_metadata |-> m]
NoResult == ResultOf(FALSE, NoForm, EmptyMeta)

\* DEFAULT_MAX_BODY_SIZE = 20 * 1024 * 1024
DEFAULT_MAX_BODY_SIZE == 20971520

\* an Optional[int] size limit: Unset is None
Unset == -1
Limits == {Unset} \cup (0 .. MaxSize)

\* Python truth of an Optional[int]: None and 0 are false
Truthy(limit) == limit # Unset /\ limit # 0

\* the Content-Length header of a request: absent, a string int() rejects,
\* or a string int() converts to n
Header(kind, n) == [kind |-> kind, n |-> n]
Headers ==
    {Header("missing", 0), Header("invalid", 0)}
    \cup {Header("int", n) : n \in (-2 .. MaxSize + 1)
                                   \cup {DEFAULT_MAX_BODY_SIZE, DEFAULT_MAX_BODY_SIZE + 1}}

\* the Content-Type header: urlencoded, multipart/form-data with a boundary
\* parameter, or multipart/form-data without one
ContentTypes == {"urlencoded", "multipart", "multipart_no_boundary"}

\* a part of a multipart body: whether it carries a filename, and the
\* length of its content
Part(is_file, size) == [is_file |-> is_file, size |-> size]
Parts == {Part(f, n) : f \in BOOLEAN, n \in 0 .. MaxSize + 1}

RECURSIVE SumSizes(_)
SumSizes(parts) ==
    IF parts = <<>> THEN 0
    ELSE parts[1].size + SumSizes(Tail(parts))

\* a request body: its length in bytes and the parts it holds
BodyOf(len, parts) == [len |-> len, parts |-> parts]
NoBody == BodyOf(0, <<>>)

\* the bodies of len bytes: every part takes its content and at least one
\* byte of boundary and headers
BodiesOfLen(len) ==
    {BodyOf(len, ps) : ps \in {q \in SeqsUpTo(Parts, MaxParts) :
                                  SumSizes(q) + Len(q) <= len}}

\* the bodies a client can send
MultipartBodies == UNION {BodiesOfLen(len) : len \in 0 .. MaxSize + 2}

\* the outcome of parse_multipart: the ValueError raised (none when it
\* returns), whether extract_boundary was called and how many parts were
\* handed to parse_part
ParseResult(error, boundary_extracted, parts_read) ==
    [error |-> error, boundary_extracted |-> boundary_extracted,
     parts_read |-> parts_read]
NotParsed == ParseResult("not_called", FALSE, 0)

\* the loop over the parts: a part with a filename whose content is longer
\* than a set max_file_size raises
RECURSIVE ParseParts(_, _, _)
ParseParts(parts, limit, read) ==
    IF parts = <<>> THEN ParseResult("none", TRUE, read)
    ELSE IF parts[1].is_file /\ Truthy(limit) /\ parts[1].size > limit
         THEN ParseResult("file_size", TRUE, read + 1)
         ELSE ParseParts(Tail(parts), limit, read + 1)

\* parse_multipart(body, content_type, max_file_size, max_total_size)
ParseMultipart(b, ctype, file_limit, total_limit) ==
    IF Truthy(total_limit) /\ b.len > total_limit
    THEN ParseResult("total_size", FALSE, 0)
    ELSE IF ctype = "multipart_no_boundary"
         THEN ParseResult("no_boundary", TRUE, 0)
         ELSE ParseParts(b.parts, file_limit, 0)

VARIABLES
    reset_timeout_on_error, \* FormServer.reset_timeout_on_error
    csrf_token,             \* FormServer.csrf_token
    server_bound,           \* FormServer.server is not None
    socket_open,            \* the listening socket is open
    shutdown_request,       \* BaseServer.__shutdown_request
    form_data,              \* FormServer.form_data
    file_metadata,          \* FormServer.file_metadata
    success,                \* FormServer.success
    timed_out,              \* FormServer.timed_out
    shutdown_event,         \* FormServer.shutdown_event is set
    timeout_timer,          \* FormServer.timeout_timer: index into timers, 0 is None
    timers,                 \* every threading.Timer created so far
    reset_timeout_callback, \* FormServerHandler.reset_timeout_callback is set
    main_pc,                \* position of the caller inside serve()
    result,                 \* the tuple serve() returns, built read by read
    srv_pc,                 \* position of the accept-loop thread
    h_form_data,            \* do_POST's local form_data, token removed
    h_file_metadata,        \* do_POST's local file_metadata
    nreq,                   \* connections accepted so far; the current request's id
    sd_sleeping,            \* delayed_shutdown threads still in time.sleep
    resp,                   \* the response written last
    acked,                  \* requests answered with the success page (history)
    upload_dir,             \* requests whose files were written to upload_dir
    since_arm,              \* ticks since the last Timer was armed (history)
    first_slot,             \* which of success / timed_out was written first (history)
    max_file_size,          \* FormServer.max_file_size
    max_total_size,         \* FormServer.max_total_size
    header,                 \* the Content-Length header of the POST under study
    content_type,           \* its Content-Type header
    body,                   \* do_POST's local body, as read from rfile
    post_pc,                \* position of do_POST on the POST under study
    post_status,            \* the status do_POST answered, 0 while none
    post_reset,             \* do_POST reached its call of reset_timeout_callback
    parse_result,           \* what parse_multipart returned or raised
    use_ssl,                \* FormServer.use_ssl
    launch_browser,         \* serve()'s launch_browser_path is not None
    tls_wrapped,            \* the listening socket is wrapped by the SSL context
    url_emitted,            \* the URL was printed to stderr
    browser_launched,       \* launch_browser(url, ...) was called
    call_fn,                \* the module-level function called on its own
    call_arg,               \* its argument
    call_pc,                \* off, called, returned or raised
    call_ret,               \* what it returned
    dir_files               \* the files of the directory it writes to

vars == <<reset_timeout_on_error, csrf_token, server_bound, socket_open,
          shutdown_request, form_data, file_metadata, success, timed_out,
          shutdown_event, timeout_timer, timers, reset_timeout_callback,
          main_pc, result, srv_pc, h_form_data,
          h_file_metadata, nreq, sd_sleeping, resp, acked,
          upload_dir, since_arm, first_slot, max_file_size, max_total_size,
          header, content_type, body, post_pc, post_status, post_reset,
          parse_result, use_ssl, launch_browser, tls_wrapped, url_emitted,
          browser_launched, call_fn, call_arg, call_pc, call_ret,
          dir_files>>

cfgVars == <<reset_timeout_on_error, csrf_token, max_file_size, max_total_size,
             use_ssl, launch_browser>>
startVars == <<tls_wrapped, url_emitted, browser_launched>>
postVars == <<header, content_type, body, post_pc, post_status, post_reset,
              parse_result>>
slotVars == <<form_data, file_metadata, success, timed_out, shutdown_event,
              first_slot>>
timerVars == <<timeout_timer, timers, since_arm>>
mainVars == <<main_pc, result>>
localVars == <<h_form_data, h_file_metadata>>
srvVars == <<srv_pc, localVars, nreq, resp, acked, upload_dir>>
sockVars == <<server_bound, socket_open, shutdown_request>>
callVars == <<call_fn, call_arg, call_pc, call_ret, dir_files>>

\* no POST is under study
PostIdle ==
    /\ header = Header("missing", 0)
    /\ content_type = "urlencoded"
    /\ body = NoBody
    /\ post_pc = "off"
    /\ post_status = 0
    /\ post_reset = FALSE
    /\ parse_result = NotParsed

\* no function of multipart.py is called on its own
CallIdle ==
    /\ call_fn = "none"
    /\ call_arg = <<>>
    /\ call_pc = "off"
    /\ call_ret = <<>>
    /\ dir_files = <<>>

\* FormServer.__init__: the state of a run
InitRun ==
    /\ csrf_token = RunToken
    /\ server_bound = FALSE
    /\ socket_open = FALSE
    /\ shutdown_request = FALSE
    /\ form_data = NoForm
    /\ file_metadata = EmptyMeta
    /\ success = FALSE
    /\ timed_out = FALSE
    /\ shutdown_event = FALSE
    /\ timeout_timer = 0
    /\ timers = <<>>
    /\ main_pc = "bind"
    /\ result = NoResult
    /\ srv_pc = "not_started"
    /\ h_form_data = NoForm
    /\ h_file_metadata = EmptyMeta
    /\ nreq = 0
    /\ sd_sleeping = 0
    /\ resp = NoResponse
    /\ acked = {}
    /\ upload_dir = {}
    /\ since_arm = 0
    /\ first_slot = "none"
    /\ tls_wrapped = FALSE
    /\ url_emitted = FALSE
    /\ browser_launched = FALSE

\* FormServer.__init__ with the default size limits and without certificate,
\* and serve() called without a browser to launch
Init ==
    /\ reset_timeout_on_error \in BOOLEAN
    /\ max_file_size = Unset
    /\ max_total_size = Unset
    /\ use_ssl = FALSE
    /\ launch_browser = FALSE
    /\ reset_timeout_callback = FALSE
    /\ PostIdle
    /\ CallIdle
    /\ InitRun


(* ------------------------- threading.Timer ----------------------------- *)

\* variant of Cancelled: the timer is left running
CancelledNot(ts, i) == ts

\* Timer.cancel(): stops a timer that is still waiting; a timer whose thread
\* is already past its wait is not affected
Cancelled(ts, i) ==
    IF i \in DOMAIN ts /\ ts[i].st = "waiting"
    THEN [ts EXCEPT ![i] = TimerRec("cancelled", 0)]
    ELSE ts

\* threading.Timer(self.timeout, self._on_timeout) followed by start()
Armed(ts) == Append(ts, TimerRec("waiting", Timeout))

\* one tick of wall-clock time
Tick ==
    /\ timers' = [i \in DOMAIN timers |->
                    IF timers[i].st = "waiting" /\ timers[i].rem > 0
                    THEN TimerRec("waiting", timers[i].rem - 1)
                    ELSE timers[i]]
    /\ since_arm' = IF since_arm < Timeout THEN since_arm + 1 ELSE since_arm
    /\ UNCHANGED <<cfgVars, callVars, postVars, startVars, sockVars, slotVars, timeout_timer,
                   reset_timeout_callback, mainVars, srvVars, sd_sleeping>>

\* the timer thread wakes after its interval, finds itself not cancelled and
\* enters _on_timeout
TimerFire(i) ==
    /\ timers[i].st = "waiting"
    /\ timers[i].rem = 0
    /\ timers' = [timers EXCEPT ![i].st = "set_timed_out"]
    /\ UNCHANGED <<cfgVars, callVars, postVars, startVars, sockVars, slotVars, timeout_timer, since_arm,
                   reset_timeout_callback, mainVars, srvVars, sd_sleeping>>

\* _on_timeout: self.timed_out = True
OnTimeoutMark(i) ==
    /\ timers[i].st = "set_timed_out"
    /\ timed_out' = TRUE
    /\ first_slot' = IF first_slot = "none" THEN "timeout" ELSE first_slot
    /\ timers' = [timers EXCEPT ![i].st = "stop_server"]
    /\ UNCHANGED <<cfgVars, callVars, postVars, startVars, sockVars, form_data, file_metadata, success,
                   shutdown_event, timeout_timer, since_arm,
                   reset_timeout_callback, mainVars, srvVars, sd_sleeping>>

\* variant of OnTimeoutStopServer: the accept loop is told to stop but the
\* listening socket is left open
OnTimeoutStopServerKeepsSocket(i) ==
    /\ timers[i].st = "stop_server"
    /\ shutdown_request' = IF server_bound THEN TRUE ELSE shutdown_request
    /\ timers' = [timers EXCEPT ![i].st = "set_event"]
    /\ UNCHANGED <<cfgVars, callVars, postVars, startVars, server_bound, socket_open, slotVars, timeout_timer, since_arm,
                   reset_timeout_callback, mainVars, srvVars, sd_sleeping>>

\* _on_timeout: if self.server: set __shutdown_request and close the
\* listening socket (no other thread tells the two writes apart: the accept
\* loop takes no connection once either has happened)
OnTimeoutStopServer(i) ==
    /\ timers[i].st = "stop_server"
    /\ shutdown_request' = IF server_bound THEN TRUE ELSE shutdown_request
    /\ socket_open' = IF server_bound THEN FALSE ELSE socket_open
    /\ timers' = [timers EXCEPT ![i].st = "set_event"]
    /\ UNCHANGED <<cfgVars, callVars, postVars, startVars, server_bound, slotVars, timeout_timer, since_arm,
                   reset_timeout_callback, mainVars, srvVars, sd_sleeping>>

\* _on_timeout: self.shutdown_event.set()
OnTimeoutSetEvent(i) ==
    /\ timers[i].st = "set_event"
    /\ shutdown_event' = TRUE
    /\ timers' = [timers EXCEPT ![i].st = "done"]
    /\ UNCHANGED <<cfgVars, callVars, postVars, startVars, sockVars, form_data, file_metadata, success,
                   timed_out, timeout_timer, since_arm, reset_timeout_callback,
                   mainVars, srvVars, sd_sleeping, first_slot>>

\* the steps of one timer thread
TimerThread ==
    \E i \in DOMAIN timers :
        \/ TimerFire(i)
        \/ OnTimeoutMark(i)
        \/ OnTimeoutStopServer(i)
        \/ OnTimeoutSetEvent(i)

(* --------------------------- serve(), caller --------------------------- *)

\* ReusableTCPServer((host, port), FormServerHandler): binds, or raises OSError
Bind ==
    /\ main_pc = "bind"
    /\ \/ /\ server_bound' = TRUE
          /\ socket_open' = TRUE
          /\ main_pc' = "wrap_tls"
       \/ /\ UNCHANGED <<server_bound, socket_open>>
          /\ main_pc' = "raised"
    /\ UNCHANGED <<cfgVars, callVars, postVars, startVars, shutdown_request, slotVars, timerVars,
                   reset_timeout_callback, result, srvVars, sd_sleeping>>

\* variant of WrapTls: serve() goes on after a failed TLS setup
WrapTlsIgnoresFailure ==
    /\ main_pc = "wrap_tls"
    /\ IF use_ssl
       THEN \/ /\ tls_wrapped' = TRUE
               /\ main_pc' = "configure"
               /\ UNCHANGED socket_open
            \/ /\ main_pc' = "configure"
               /\ UNCHANGED <<tls_wrapped, socket_open>>
       ELSE /\ main_pc' = "configure"
            /\ UNCHANGED <<tls_wrapped, socket_open>>
    /\ UNCHANGED <<cfgVars, callVars, postVars, url_emitted, browser_launched,
                   server_bound, shutdown_request, slotVars, timerVars,
                   reset_timeout_callback, result, srvVars, sd_sleeping>>

\* if self.use_ssl: context.wrap_socket(...).  ssl.SSLError and
\* FileNotFoundError close the server and are raised again; any other
\* exception of load_cert_chain leaves serve() with the socket as it is
WrapTls ==
    /\ main_pc = "wrap_tls"
    /\ IF use_ssl
       THEN \/ /\ tls_wrapped' = TRUE
               /\ main_pc' = "configure"
               /\ UNCHANGED socket_open
            \/ /\ socket_open' = FALSE
               /\ main_pc' = "raised"
               /\ UNCHANGED tls_wrapped
            \/ /\ main_pc' = "raised"
               /\ UNCHANGED <<tls_wrapped, socket_open>>
       ELSE /\ main_pc' = "configure"
            /\ UNCHANGED <<tls_wrapped, socket_open>>
    /\ UNCHANGED <<cfgVars, callVars, postVars, url_emitted, browser_launched,
                   server_bound, shutdown_request, slotVars, timerVars,
                   reset_timeout_callback, result, srvVars, sd_sleeping>>

\* print(url, file=sys.stderr)
EmitUrl ==
    /\ main_pc = "emit_url"
    /\ url_emitted' = TRUE
    /\ main_pc' = "launch_browser"
    /\ UNCHANGED <<cfgVars, callVars, postVars, tls_wrapped, browser_launched, sockVars,
                   slotVars, timerVars, reset_timeout_callback, result,
                   srvVars, sd_sleeping>>

\* if launch_browser_path is not None: launch_browser(url, browser_path)
LaunchBrowser ==
    /\ main_pc = "launch_browser"
    /\ browser_launched' = launch_browser
    /\ main_pc' = "arm"
    /\ UNCHANGED <<cfgVars, callVars, postVars, tls_wrapped, url_emitted, sockVars,
                   slotVars, timerVars, reset_timeout_callback, result,
                   srvVars, sd_sleeping>>

\* variant of Configure: the reset callback is installed unconditionally
ConfigureAlwaysInstalls ==
    /\ main_pc = "configure"
    /\ reset_timeout_callback' = TRUE
    /\ main_pc' = "emit_url"
    /\ UNCHANGED <<cfgVars, callVars, postVars, startVars, sockVars, slotVars, timerVars, result, srvVars,
                   sd_sleeping>>

\* the handler class variables; the reset callback is installed only when
\* reset_timeout_on_error is set
Configure ==
    /\ main_pc = "configure"
    /\ reset_timeout_callback' = reset_timeout_on_error
    /\ main_pc' = "emit_url"
    /\ UNCHANGED <<cfgVars, callVars, postVars, startVars, sockVars, slotVars, timerVars, result, srvVars,
                   sd_sleeping>>

\* self.timeout_timer = threading.Timer(...); start()
ArmTimer ==
    /\ main_pc = "arm"
    /\ timers' = Armed(timers)
    /\ timeout_timer' = Len(timers) + 1
    /\ since_arm' = 0
    /\ main_pc' = "start_thread"
    /\ UNCHANGED <<cfgVars, callVars, postVars, startVars, sockVars, slotVars, reset_timeout_callback, result,
                   srvVars, sd_sleeping>>

\* server_thread.start()
StartServerThread ==
    /\ main_pc = "start_thread"
    /\ srv_pc' = "select"
    /\ main_pc' = "wait"
    /\ UNCHANGED <<cfgVars, callVars, postVars, startVars, sockVars, slotVars, timerVars,
                   reset_timeout_callback, result, localVars, nreq, resp, acked,
                   upload_dir, sd_sleeping>>

\* self.shutdown_event.wait()
WaitShutdownEvent ==
    /\ main_pc = "wait"
    /\ shutdown_event
    /\ main_pc' = "join"
    /\ UNCHANGED <<cfgVars, callVars, postVars, startVars, sockVars, slotVars, timerVars,
                   reset_timeout_callback, result, srvVars, sd_sleeping>>

\* variant of JoinServerThread: the join has no timeout
JoinServerThreadUnbounded ==
    /\ main_pc = "join"
    /\ srv_pc = "exited"
    /\ main_pc' = "alive_check"
    /\ UNCHANGED <<cfgVars, callVars, postVars, startVars, sockVars, slotVars, timerVars,
                   reset_timeout_callback, result, srvVars, sd_sleeping>>

\* server_thread.join(timeout=2.0): returns when the thread has ended or
\* when the two seconds are over, whichever comes first
JoinServerThread ==
    /\ main_pc = "join"
    /\ main_pc' = "alive_check"
    /\ UNCHANGED <<cfgVars, callVars, postVars, startVars, sockVars, slotVars, timerVars,
                   reset_timeout_callback, result, srvVars, sd_sleeping>>

\* if server_thread.is_alive(): self.server.server_close()
ForceClose ==
    /\ main_pc = "alive_check"
    /\ socket_open' = IF srv_pc # "exited" THEN FALSE ELSE socket_open
    /\ main_pc' = "check_timed_out"
    /\ UNCHANGED <<cfgVars, callVars, postVars, startVars, server_bound, shutdown_request, slotVars, timerVars,
                   reset_timeout_callback, result, srvVars, sd_sleeping>>

\* the tuple of the timeout branch of serve()
TimeoutResult == ResultOf(FALSE, NoForm, EmptyMeta)

\* variant of ReturnCheckTimedOut: a recorded success takes precedence
ReturnCheckSuccessFirst ==
    /\ main_pc = "check_timed_out"
    /\ IF timed_out /\ ~success
       THEN /\ result' = TimeoutResult
            /\ main_pc' = "returned"
       ELSE /\ result' = result
            /\ main_pc' = "read_success"
    /\ UNCHANGED <<cfgVars, callVars, postVars, startVars, sockVars, slotVars, timerVars,
                   reset_timeout_callback, srvVars, sd_sleeping>>

\* if self.timed_out: return False, None, {}
ReturnCheckTimedOut ==
    /\ main_pc = "check_timed_out"
    /\ IF timed_out
       THEN /\ result' = TimeoutResult
            /\ main_pc' = "returned"
       ELSE /\ result' = result
            /\ main_pc' = "read_success"
    /\ UNCHANGED <<cfgVars, callVars, postVars, startVars, sockVars, slotVars, timerVars,
                   reset_timeout_callback, srvVars, sd_sleeping>>

\* return self.success, self.form_data, self.file_metadata: three reads
ReturnReadSuccess ==
    /\ main_pc = "read_success"
    /\ result' = [result EXCEPT !.success = success]
    /\ main_pc' = "read_form_data"
    /\ UNCHANGED <<cfgVars, callVars, postVars, startVars, sockVars, slotVars, timerVars,
                   reset_timeout_callback, srvVars, sd_sleeping>>

ReturnReadFormData ==
    /\ main_pc = "read_form_data"
    /\ result' = [result EXCEPT !.form_data = form_data]
    /\ main_pc' = "read_file_metadata"
    /\ UNCHANGED <<cfgVars, callVars, postVars, startVars, sockVars, slotVars, timerVars,
                   reset_timeout_callback, srvVars, sd_sleeping>>

ReturnReadFileMetadata ==
    /\ main_pc = "read_file_metadata"
    /\ result' = [result EXCEPT !.file_metadata = file_metadata]
    /\ main_pc' = "returned"
    /\ UNCHANGED <<cfgVars, callVars, postVars, startVars, sockVars, slotVars, timerVars,
                   reset_timeout_callback, srvVars, sd_sleeping>>

\* the steps of the caller
Serve ==
    \/ Bind
    \/ WrapTls
    \/ Configure
    \/ EmitUrl
    \/ LaunchBrowser
    \/ ArmTimer
    \/ StartServerThread
    \/ WaitShutdownEvent
    \/ JoinServerThread
    \/ ForceClose
    \/ ReturnCheckTimedOut
    \/ ReturnReadSuccess
    \/ ReturnReadFormData
    \/ ReturnReadFileMetadata


(* ----------------------- accept loop and handler ----------------------- *)

\* serve_forever: the loop takes the next connection while the listener is
\* open and no shutdown was requested; the handler runs inline and first
\* waits for the client's request
Accept ==
    /\ srv_pc = "select"
    /\ ~shutdown_request
    /\ socket_open
    /\ nreq < MaxRequests
    /\ nreq' = nreq + 1
    /\ srv_pc' = "reading"
    /\ UNCHANGED <<cfgVars, callVars, postVars, startVars, sockVars, slotVars, timerVars,
                   reset_timeout_callback, mainVars, localVars, resp, acked,
                   upload_dir, sd_sleeping>>

\* the client goes away without sending a request (an idle keep-alive
\* connection that is closed) and the handler returns without a response
ClientCloses ==
    /\ srv_pc = "reading"
    /\ srv_pc' = "select"
    /\ UNCHANGED <<cfgVars, callVars, postVars, startVars, sockVars, slotVars, timerVars,
                   reset_timeout_callback, mainVars, localVars, nreq, resp,
                   acked, upload_dir, sd_sleeping>>

\* serve_forever leaves its loop when a shutdown was requested or the
\* listening socket is gone; its finally clause clears the request flag
ExitLoop ==
    /\ srv_pc = "select"
    /\ shutdown_request \/ ~socket_open
    /\ srv_pc' = "exited"
    /\ shutdown_request' = FALSE
    /\ UNCHANGED <<cfgVars, callVars, postVars, startVars, server_bound, socket_open, slotVars, timerVars,
                   reset_timeout_callback, mainVars, localVars, nreq, resp,
                   acked, upload_dir, sd_sleeping>>

\* variant of CsrfValid: only the first submitted value is compared
CsrfValidFirstValue(token) == token.vals[1] = csrf_token

\* if submitted_token != self.csrf_token
CsrfValid(token) == token = StrVal(csrf_token)

\* variant of HandlerSuccessPath: on_success is called before the page is sent
HandlerSuccessPathPublishFirst ==
    <<"cancel_timer", "set_form_data", "set_file_metadata", "set_success",
      "set_event", "send_success", "start_shutdown">>

\* the rest of do_POST after the files are saved, statement by statement:
\* _send_success_page, then _on_success (cancel, three writes, set), then
\* the start of the delayed_shutdown thread
HandlerSuccessPath ==
    <<"send_success", "cancel_timer", "set_form_data", "set_file_metadata",
      "set_success", "set_event", "start_shutdown">>

OnSuccessPath(pc) == \E i \in DOMAIN HandlerSuccessPath : HandlerSuccessPath[i] = pc

\* the statement after pc; the handler returns after the last one
After(pc) ==
    LET i == CHOOSE k \in DOMAIN HandlerSuccessPath : HandlerSuccessPath[k] = pc
    IN  IF i = Len(HandlerSuccessPath) THEN "select" ELSE HandlerSuccessPath[i + 1]

\* the handler goes on to the statement next; its locals die when it returns
GoTo(next) ==
    /\ srv_pc' = next
    /\ IF next = "select"
       THEN /\ h_form_data' = NoForm
            /\ h_file_metadata' = EmptyMeta
       ELSE UNCHANGED localVars

\* variant of ErrorReturn: the accept loop is asked to stop after the response
ErrorReturnStopsServer(code, reset) ==
    /\ resp' = Response(nreq, code, "error")
    /\ GoTo(IF reset /\ reset_timeout_callback THEN "reset_cancel" ELSE "select")
    /\ shutdown_request' = TRUE

\* an error response followed by return; reset tells whether the handler
\* first calls reset_timeout_callback, which it does when one is installed
ErrorReturn(code, reset) ==
    /\ resp' = Response(nreq, code, "error")
    /\ GoTo(IF reset /\ reset_timeout_callback THEN "reset_cancel" ELSE "select")
    /\ UNCHANGED shutdown_request

\* variant of DoGet: a GET asks for a deadline reset
DoGetResets(r) ==
    /\ resp' = IF r.path = "endpoint"
               THEN Response(nreq, 200, "form")
               ELSE Response(nreq, 404, "error")
    /\ GoTo(IF reset_timeout_callback THEN "reset_cancel" ELSE "select")
    /\ UNCHANGED shutdown_request

\* do_GET: the stored HTML on the endpoint path, 404 on any other
DoGet(r) ==
    /\ resp' = IF r.path = "endpoint"
               THEN Response(nreq, 200, "form")
               ELSE Response(nreq, 404, "error")
    /\ GoTo("select")
    /\ UNCHANGED shutdown_request

\* the client's request r arrives: do_GET, or do_POST up to the reading of
\* the body
Dispatch(r) ==
    /\ srv_pc = "reading"
    /\ IF r.method = "GET" THEN DoGet(r)
       ELSE IF r.path # "endpoint" THEN ErrorReturn(404, FALSE)
       ELSE IF r.clen = "invalid" THEN ErrorReturn(400, FALSE)
       ELSE IF r.clen = "over" THEN ErrorReturn(413, TRUE)
       ELSE IF ~r.read_ok THEN ErrorReturn(500, FALSE)
       ELSE /\ GoTo("decode")
            /\ UNCHANGED <<resp, shutdown_request>>
    /\ UNCHANGED <<cfgVars, callVars, postVars, startVars, server_bound, socket_open, slotVars, timerVars,
                   reset_timeout_callback, mainVars, nreq, acked, upload_dir,
                   sd_sleeping>>

\* the status do_POST answers body b with between the decoding and the
\* CSRF check: 413 or 400 for the decoders' exceptions, 403 for a token
\* that does not match, 200 for a body that goes on to be stored
BodyStatus(b) ==
    IF b.decode = "ValueError" THEN 413
    ELSE IF b.decode = "Exception" THEN 400
    ELSE IF ~CsrfValid(SubmittedToken(ParseFields(b.pairs))) THEN 403
    ELSE 200

\* the fields do_POST keeps of a body b that passed the CSRF check
StoredFields(b) == PopCsrf(ParseFields(b.pairs))

\* variant of DecodeAndCheck: the uploads are written while the body is
\* decoded, before the token is compared
DecodeAndCheckSavesFirst(b) ==
    /\ srv_pc = "decode"
    /\ upload_dir' = upload_dir \cup {nreq}
    /\ IF BodyStatus(b) # 200
       THEN ErrorReturn(BodyStatus(b), TRUE)
       ELSE /\ srv_pc' = "save_files"
            /\ h_form_data' = FormDataOf(nreq, StoredFields(b))
            /\ UNCHANGED <<h_file_metadata, resp, shutdown_request>>
    /\ UNCHANGED <<cfgVars, callVars, postVars, startVars, server_bound, socket_open, slotVars, timerVars,
                   reset_timeout_callback, mainVars, nreq, acked,
                   sd_sleeping>>

\* do_POST from the decoding of the body b to the CSRF check and the
\* removal of the token from the fields
DecodeAndCheck(b) ==
    /\ srv_pc = "decode"
    /\ IF BodyStatus(b) # 200
       THEN ErrorReturn(BodyStatus(b), TRUE)
       ELSE /\ srv_pc' = "save_files"
            /\ h_form_data' = FormDataOf(nreq, StoredFields(b))
            /\ UNCHANGED <<h_file_metadata, resp, shutdown_request>>
    /\ UNCHANGED <<cfgVars, callVars, postVars, startVars, server_bound, socket_open, slotVars, timerVars,
                   reset_timeout_callback, mainVars, nreq, acked, upload_dir,
                   sd_sleeping>>

\* the error page of a failed save ("Failed to save file: ...") and return
StorageErrorReturn(reset) ==
    /\ resp' = Response(nreq, 500, "storage_error")
    /\ GoTo(IF reset /\ reset_timeout_callback THEN "reset_cancel" ELSE "select")
    /\ UNCHANGED shutdown_request

\* variant of SaveFiles: a failed save asks for a deadline reset
SaveFilesResets(u) ==
    /\ srv_pc = "save_files"
    /\ IF SaveRaises(u)
       THEN /\ StorageErrorReturn(TRUE)
            /\ UNCHANGED upload_dir
       ELSE /\ upload_dir' = IF u.nfiles > 0 THEN upload_dir \cup {nreq} ELSE upload_dir
            /\ h_file_metadata' = MetaOf(nreq, u.nfiles)
            /\ srv_pc' = HandlerSuccessPath[1]
            /\ UNCHANGED <<h_form_data, resp, shutdown_request>>
    /\ UNCHANGED <<cfgVars, callVars, postVars, startVars, server_bound, socket_open, slotVars, timerVars,
                   reset_timeout_callback, mainVars, nreq, acked, sd_sleeping>>

\* do_POST: the loop over form_data.files that saves the uploads u and
\* builds file_metadata
SaveFiles(u) ==
    /\ srv_pc = "save_files"
    /\ IF SaveRaises(u)
       THEN /\ StorageErrorReturn(FALSE)
            /\ UNCHANGED upload_dir
       ELSE /\ upload_dir' = IF u.nfiles > 0 THEN upload_dir \cup {nreq} ELSE upload_dir
            /\ h_file_metadata' = MetaOf(nreq, u.nfiles)
            /\ srv_pc' = HandlerSuccessPath[1]
            /\ UNCHANGED <<h_form_data, resp, shutdown_request>>
    /\ UNCHANGED <<cfgVars, callVars, postVars, startVars, server_bound, socket_open, slotVars, timerVars,
                   reset_timeout_callback, mainVars, nreq, acked, sd_sleeping>>

\* reset_timeout: if self.timeout_timer: self.timeout_timer.cancel()
ResetCancel ==
    /\ srv_pc = "reset_cancel"
    /\ timers' = Cancelled(timers, timeout_timer)
    /\ srv_pc' = "reset_arm"
    /\ UNCHANGED <<cfgVars, callVars, postVars, startVars, sockVars, slotVars, timeout_timer, since_arm,
                   reset_timeout_callback, mainVars, localVars, nreq, resp,
                   acked, upload_dir, sd_sleeping>>

\* reset_timeout: if self.reset_timeout_on_error: arm a new timer
ResetArm ==
    /\ srv_pc = "reset_arm"
    /\ IF reset_timeout_on_error
       THEN /\ timers' = Armed(timers)
            /\ timeout_timer' = Len(timers) + 1
            /\ since_arm' = 0
       ELSE UNCHANGED timerVars
    /\ GoTo("select")
    /\ UNCHANGED <<cfgVars, callVars, postVars, startVars, sockVars, slotVars, reset_timeout_callback,
                   mainVars, nreq, resp, acked, upload_dir, sd_sleeping>>

\* self._send_success_page()
SendSuccessPage ==
    /\ srv_pc = "send_success"
    /\ resp' = Response(nreq, 200, "success")
    /\ acked' = acked \cup {nreq}
    /\ GoTo(After(srv_pc))
    /\ UNCHANGED <<cfgVars, callVars, postVars, startVars, sockVars, slotVars, timerVars,
                   reset_timeout_callback, mainVars, nreq, upload_dir,
                   sd_sleeping>>

\* variant of OnSuccessCancel: the caller is signalled at the start of
\* _on_success, before the slot is filled
OnSuccessCancelSetsEvent ==
    /\ srv_pc = "cancel_timer"
    /\ timers' = Cancelled(timers, timeout_timer)
    /\ shutdown_event' = TRUE
    /\ GoTo(After(srv_pc))
    /\ UNCHANGED <<cfgVars, callVars, postVars, startVars, sockVars, form_data, file_metadata, success,
                   timed_out, first_slot, timeout_timer, since_arm,
                   reset_timeout_callback, mainVars, nreq, resp, acked,
                   upload_dir, sd_sleeping>>

\* _on_success: if self.timeout_timer: self.timeout_timer.cancel()
OnSuccessCancel ==
    /\ srv_pc = "cancel_timer"
    /\ timers' = Cancelled(timers, timeout_timer)
    /\ GoTo(After(srv_pc))
    /\ UNCHANGED <<cfgVars, callVars, postVars, startVars, sockVars, slotVars, timeout_timer, since_arm,
                   reset_timeout_callback, mainVars, nreq, resp, acked,
                   upload_dir, sd_sleeping>>

\* _on_success: self.form_data = form_data
OnSuccessFormData ==
    /\ srv_pc = "set_form_data"
    /\ form_data' = h_form_data
    /\ GoTo(After(srv_pc))
    /\ UNCHANGED <<cfgVars, callVars, postVars, startVars, sockVars, file_metadata, success, timed_out,
                   shutdown_event, first_slot, timerVars,
                   reset_timeout_callback, mainVars, nreq, resp, acked,
                   upload_dir, sd_sleeping>>

\* _on_success: self.file_metadata = file_metadata
OnSuccessFileMetadata ==
    /\ srv_pc = "set_file_metadata"
    /\ file_metadata' = h_file_metadata
    /\ GoTo(After(srv_pc))
    /\ UNCHANGED <<cfgVars, callVars, postVars, startVars, sockVars, form_data, success, timed_out,
                   shutdown_event, first_slot, timerVars,
                   reset_timeout_callback, mainVars, nreq, resp, acked,
                   upload_dir, sd_sleeping>>

\* _on_success: self.success = True
OnSuccessMark ==
    /\ srv_pc = "set_success"
    /\ success' = TRUE
    /\ first_slot' = IF first_slot = "none" THEN "success" ELSE first_slot
    /\ GoTo(After(srv_pc))
    /\ UNCHANGED <<cfgVars, callVars, postVars, startVars, sockVars, form_data, file_metadata, timed_out,
                   shutdown_event, timerVars, reset_timeout_callback, mainVars,
                   nreq, resp, acked, upload_dir, sd_sleeping>>

\* variant of OnSuccessSetEvent: the caller is not signalled
OnSuccessSetEventSkipped ==
    /\ srv_pc = "set_event"
    /\ GoTo(After(srv_pc))
    /\ UNCHANGED <<cfgVars, callVars, postVars, startVars, sockVars, slotVars, timerVars,
                   reset_timeout_callback, mainVars, nreq, resp, acked,
                   upload_dir, sd_sleeping>>

\* _on_success: self.shutdown_event.set()
OnSuccessSetEvent ==
    /\ srv_pc = "set_event"
    /\ shutdown_event' = TRUE
    /\ GoTo(After(srv_pc))
    /\ UNCHANGED <<cfgVars, callVars, postVars, startVars, sockVars, form_data, file_metadata, success,
                   timed_out, first_slot, timerVars, reset_timeout_callback,
                   mainVars, nreq, resp, acked, upload_dir, sd_sleeping>>

\* threading.Thread(target=delayed_shutdown).start(); do_POST returns
StartDelayedShutdown ==
    /\ srv_pc = "start_shutdown"
    /\ sd_sleeping' = sd_sleeping + 1
    /\ GoTo(After(srv_pc))
    /\ UNCHANGED <<cfgVars, callVars, postVars, startVars, sockVars, slotVars, timerVars,
                   reset_timeout_callback, mainVars, nreq, resp, acked,
                   upload_dir>>

\* delayed_shutdown after its sleep: server_instance.shutdown() requests the
\* accept loop to stop
DelayedShutdown ==
    /\ sd_sleeping > 0
    /\ sd_sleeping' = sd_sleeping - 1
    /\ shutdown_request' = TRUE
    /\ UNCHANGED <<cfgVars, callVars, postVars, startVars, server_bound, socket_open, slotVars, timerVars,
                   reset_timeout_callback, mainVars, srvVars>>

\* the steps of a request handler after the decoding of the body
HandlerAfterDecode ==
    \/ \E u \in Uploads : SaveFiles(u)
    \/ ResetCancel
    \/ ResetArm
    \/ SendSuccessPage
    \/ OnSuccessCancel
    \/ OnSuccessFormData
    \/ OnSuccessFileMetadata
    \/ OnSuccessMark
    \/ OnSuccessSetEvent
    \/ StartDelayedShutdown

\* the steps of a request handler, run inline by the accept-loop thread,
\* once the request is there
Handler ==
    \/ \E b \in PostBodies : DecodeAndCheck(b)
    \/ HandlerAfterDecode

\* the steps that depend on a client
Clients ==
    \/ \E r \in Requests : Dispatch(r)
    \/ ClientCloses

Next ==
    \/ Serve
    \/ Accept
    \/ ExitLoop
    \/ Clients
    \/ Handler
    \/ TimerThread
    \/ DelayedShutdown
    \/ Tick

Spec == Init /\ [][Next]_vars

(* ------------------------ progress specification ---------------------- *)

\* the accept loop under the smaller bound of the progress runs
AcceptLive ==
    /\ nreq < MaxLiveRequests
    /\ Accept

NextLive ==
    \/ Serve
    \/ AcceptLive
    \/ ExitLoop
    \/ Clients
    \/ Handler
    \/ TimerThread
    \/ DelayedShutdown
    \/ Tick

\* every thread of the process keeps running and time keeps passing; nothing
\* is assumed of the clients: they need not connect, and an idle client need
\* not go away
Fairness ==
    /\ WF_vars(Serve)
    /\ WF_vars(Handler)
    /\ WF_vars(ExitLoop)
    /\ WF_vars(TimerThread)
    /\ WF_vars(DelayedShutdown)
    /\ WF_vars(Tick)

SpecLive == Init /\ [][NextLive]_vars /\ Fairness

(* ------------------ clients that send arbitrary bytes ----------------- *)

\* the steps of a request handler when the bodies may hold content that is
\* not valid UTF-8
HandlerBytes ==
    \/ \E b \in BytePostBodies : DecodeAndCheck(b)
    \/ HandlerAfterDecode

NextBytes ==
    \/ Serve
    \/ AcceptLive
    \/ ExitLoop
    \/ Clients
    \/ HandlerBytes
    \/ TimerThread
    \/ DelayedShutdown
    \/ Tick

SpecBytes == Init /\ [][NextBytes]_vars


(* ------------------------- start of serve() --------------------------- *)

\* FormServer.__init__ with or without a certificate, and serve() called
\* with or without a browser to launch
InitStartup ==
    /\ reset_timeout_on_error \in BOOLEAN
    /\ max_file_size = Unset
    /\ max_total_size = Unset
    /\ use_ssl \in BOOLEAN
    /\ launch_browser \in BOOLEAN
    /\ reset_timeout_callback = FALSE
    /\ PostIdle
    /\ CallIdle
    /\ InitRun

SpecStartup == InitStartup /\ [][NextLive]_vars


(* ------------------- one POST and its size limits -------------------- *)

\* the variables of a run, which the study of one POST leaves alone
runVars == <<sockVars, slotVars, timerVars, reset_timeout_callback, mainVars,
             srvVars, sd_sleeping, startVars>>

\* a configured server (serve() has installed the handler's class
\* variables) and one POST to the endpoint path arriving
InitPost ==
    /\ reset_timeout_on_error \in BOOLEAN
    /\ max_file_size \in Limits
    /\ max_total_size \in Limits
    /\ use_ssl = FALSE
    /\ launch_browser = FALSE
    /\ reset_timeout_callback = reset_timeout_on_error
    /\ header \in Headers
    /\ content_type \in ContentTypes
    /\ body = NoBody
    /\ post_pc = "start"
    /\ post_status = 0
    /\ post_reset = FALSE
    /\ parse_result = NotParsed
    /\ CallIdle
    /\ InitRun

\* effective_max = self.max_total_size if self.max_total_size else DEFAULT_MAX_BODY_SIZE
EffectiveMax(limit) == IF Truthy(limit) THEN limit ELSE DEFAULT_MAX_BODY_SIZE

\* _send_error_page(code, ...) and return; reset tells whether the handler
\* first comes to "if self.reset_timeout_callback: self.reset_timeout_callback()"
PostError(code, reset) ==
    /\ post_status' = code
    /\ post_reset' = (reset /\ reset_timeout_callback)
    /\ post_pc' = "returned"

\* do_POST goes on without a response
PostGoTo(pc) ==
    /\ post_pc' = pc
    /\ UNCHANGED <<post_status, post_reset>>

\* do_POST: int() of the Content-Length header and the gate on it
PostGate ==
    /\ post_pc = "start"
    /\ IF header.kind = "invalid" THEN PostError(400, FALSE)
       ELSE IF header.n > EffectiveMax(max_total_size) THEN PostError(413, TRUE)
       ELSE PostGoTo("read")
    /\ UNCHANGED <<header, content_type, body, parse_result, cfgVars, callVars, runVars>>

\* do_POST: body = self.rfile.read(content_length).  A length below -1
\* raises, -1 reads up to the end of the stream, and the read itself may
\* fail
PostRead ==
    /\ post_pc = "read"
    /\ \/ /\ header.n < -1
          /\ PostError(500, FALSE)
          /\ UNCHANGED body
       \/ /\ header.n = -1
          /\ \E b \in MultipartBodies : body' = b
          /\ PostGoTo("parse")
       \/ /\ header.n >= 0
          /\ \E b \in BodiesOfLen(header.n) : body' = b
          /\ PostGoTo("parse")
       \/ /\ header.n >= -1
          /\ PostError(500, FALSE)
          /\ UNCHANGED body
    /\ UNCHANGED <<header, content_type, parse_result, cfgVars, callVars, runVars>>

\* do_POST: the decoder chosen by the Content-Type; a ValueError of
\* parse_multipart is answered 413
PostParse ==
    /\ post_pc = "parse"
    /\ IF content_type = "urlencoded"
       THEN /\ PostGoTo("parsed")
            /\ UNCHANGED parse_result
       ELSE /\ parse_result' = ParseMultipart(body, content_type, max_file_size,
                                              max_total_size)
            /\ IF parse_result'.error # "none"
               THEN PostError(413, TRUE)
               ELSE PostGoTo("parsed")
    /\ UNCHANGED <<header, content_type, body, cfgVars, callVars, runVars>>

\* parse_multipart called on its own with any body
ParseCall ==
    /\ post_pc = "start"
    /\ content_type # "urlencoded"
    /\ \E b \in MultipartBodies :
          /\ body' = b
          /\ parse_result' = ParseMultipart(b, content_type, max_file_size,
                                            max_total_size)
    /\ PostGoTo("called")
    /\ UNCHANGED <<header, content_type, cfgVars, callVars, runVars>>

NextPost ==
    \/ PostGate
    \/ PostRead
    \/ PostParse
    \/ ParseCall

SpecPost == InitPost /\ [][NextPost]_vars


(* ------------------------------ properties ----------------------------- *)

\* the body carries the field _csrf_token exactly once, with the run's token
CarriesExactToken(pairs) ==
    LET at == {i \in DOMAIN pairs : pairs[i][1] = CsrfField}
    IN  /\ Cardinality(at) = 1
        /\ \A i \in at : pairs[i][2] = csrf_token

\* a POST to the endpoint path whose body is read and handed to the decoders
ReachesDecoding(r) ==
    /\ r.method = "POST"
    /\ r.path = "endpoint"
    /\ r.clen = "ok"
    /\ r.read_ok

\* a body that decodes without error and so gets as far as the CSRF check
ReachesCsrfCheck(b) == b.decode = "ok"

\* the accept-loop thread takes a step
HandlerSteps == srv_pc' # srv_pc

\* the handler's step from the arrival of the request to the read of the body
DispatchSteps == srv_pc = "reading" /\ HandlerSteps

\* the handler's step from the decoding of the body to the CSRF check
DecodeSteps == srv_pc = "decode" /\ HandlerSteps

\* the handler's step that saves the uploaded files
SaveSteps == srv_pc = "save_files" /\ HandlerSteps

C2_SlotsDisjoint == ~(success /\ timed_out)

\* C3: once a submission is recorded, form_data and file_metadata never
\* change again, and serve() returns the data of the first submission.
C3_FirstSubmissionWins ==
    /\ [][success => /\ form_data' = form_data
                     /\ file_metadata' = file_metadata]_vars
    /\ []((main_pc = "returned" /\ result.success)
          => \A r \in acked : result.form_data.rid <= r)

\* C4: the success page is written before the slot is filled and before
\* shutdown_event is set by the handler; a delayed_shutdown thread exists
\* only after the publication; a caller that observes success observes a
\* submission that was already answered.
C4_AnswerBeforePublish ==
    /\ form_data.rid # 0 => form_data.rid \in acked
    /\ file_metadata.rid # 0 => file_metadata.rid \in acked
    /\ success => acked # {}
    /\ (shutdown_event /\ ~timed_out) => (success /\ acked # {})
    /\ sd_sleeping > 0 => (success /\ shutdown_event)
    /\ (main_pc = "returned" /\ result.success) => result.form_data.rid \in acked

\* C4 witness: serve() has returned a submission whose success page was sent
C4_Witness ==
    /\ main_pc = "returned"
    /\ result.success
    /\ result.form_data.rid \in acked
    /\ resp = Response(result.form_data.rid, 200, "success")

\* C7: when timed_out was written before success, serve() returns
\* (False, None, {}), whatever a handler publishes afterwards.
C7_LateSubmissionInvisible ==
    (main_pc = "returned" /\ first_slot = "timeout") => result = TimeoutResult

\* C7 witness: the deadline fired first, a handler then recorded a
\* submission, and serve() returned the timeout tuple
C7_Witness ==
    /\ main_pc = "returned"
    /\ first_slot = "timeout"
    /\ success
    /\ form_data.rid # 0
    /\ result = TimeoutResult

\* a timer thread sets shutdown_event
TimerSetsEvent == \E i \in DOMAIN timers : timers[i].st = "set_event" /\ timers'[i].st = "done"

\* a timer thread stops the server
TimerStopsServer == \E i \in DOMAIN timers : timers[i].st = "stop_server" /\ timers'[i].st = "set_event"

\* C8: shutdown_event is set only by _on_success or _on_timeout; an error
\* response (400, 403, 404, 413, 500) and the reset that may follow it fill
\* no slot and do not stop the accept loop; a valid POST goes to the success
\* path whatever came before, and a run that returns without a timeout
\* returns a submission that was answered with the success page (the only
\* one, when only one was).
C8_ErrorsKeepRunAlive ==
    /\ [][/\ shutdown_event' # shutdown_event
             => ((srv_pc = "set_event" /\ HandlerSteps) \/ TimerSetsEvent)
          /\ (shutdown_request' /\ ~shutdown_request)
             => (TimerStopsServer \/ sd_sleeping' < sd_sleeping)
          /\ (socket_open /\ ~socket_open')
             => (TimerStopsServer \/ main_pc = "alive_check")
          /\ (/\ HandlerSteps
              /\ \/ resp'.code \in {400, 403, 404, 413, 500} /\ resp' # resp
                 \/ srv_pc \in {"reset_cancel", "reset_arm"})
             => /\ UNCHANGED slotVars
                /\ UNCHANGED <<socket_open, sd_sleeping>>
                /\ shutdown_request' = shutdown_request
                /\ srv_pc' \in {"select", "reset_cancel", "reset_arm"}
          /\ DispatchSteps
             => \A r \in Requests :
                   (ReachesDecoding(r) /\ Dispatch(r)) => srv_pc' = "decode"
          /\ DecodeSteps
             => (srv_pc' = "save_files" <=> resp' = resp)
          /\ SaveSteps
             => \A u \in Uploads :
                   (~SaveRaises(u) /\ SaveFiles(u))
                   => srv_pc' = "send_success"
          /\ (srv_pc = "set_form_data" /\ HandlerSteps)
             => form_data'.rid = nreq
          /\ (srv_pc = "set_success" /\ HandlerSteps)
             => success']_vars
    /\ [](/\ srv_pc = "decode"
             => \A b \in PostBodies :
                   (ReachesCsrfCheck(b) /\ CarriesExactToken(b.pairs))
                   => BodyStatus(b) = 200
          /\ (main_pc = "returned" /\ ~timed_out)
             => /\ result.success
                /\ result.form_data.rid \in acked
                /\ result.file_metadata.rid \in acked
          /\ (main_pc = "returned" /\ result.success)
             => \A r \in 1..MaxRequests :
                   acked = {r} => /\ result.form_data.rid = r
                                  /\ result.file_metadata.rid = r)

\* C8 witness: the first request was a recoverable error (the deadline was
\* re-armed), the second a valid POST, and serve() returned the second
\* submission
C8_Witness ==
    /\ main_pc = "returned"
    /\ result.success
    /\ result.form_data.rid = 2
    /\ acked = {2}
    /\ timeout_timer = 2

\* the errors after which the handler asks for a deadline reset: a
\* Content-Length above the cap,
RecoverableError(r) ==
    /\ r.method = "POST"
    /\ r.path = "endpoint"
    /\ r.clen = "over"

\* a body the decoders reject, and a body without the exact token
RecoverableBodyError(b) ==
    \/ b.decode \in {"ValueError", "Exception"}
    \/ b.decode = "ok" /\ ~CarriesExactToken(b.pairs)

\* a timer thread finds its timer expired and not cancelled
TimerExpires(i) == timers[i].st = "waiting" /\ timers'[i].st = "set_timed_out"

C10_NoResetKeepsDeadline ==
    /\ [](~reset_timeout_on_error
          => /\ ~reset_timeout_callback
             /\ srv_pc \notin {"reset_cancel", "reset_arm"}
             /\ Len(timers) <= 1
             /\ timeout_timer = Len(timers)
             /\ \A i \in DOMAIN timers : timers[i].st = "cancelled" => acked # {})
    /\ [][~reset_timeout_on_error
          => /\ (HandlerSteps /\ resp' # resp /\ resp'.code # 200)
                => UNCHANGED <<timeout_timer, timers>>
             /\ \A i \in DOMAIN timers : TimerExpires(i) => since_arm >= Timeout]_vars

\* C10 witness: a 403 was answered, the timer of serve() is the only one and
\* has expired
C10_Witness ==
    /\ ~reset_timeout_on_error
    /\ resp.code = 403
    /\ Len(timers) = 1
    /\ timers[1].st = "set_timed_out"


C6_SuccessReturns == success ~> (main_pc = "returned")

\* C6 witness: serve() has returned a submission while the accept-loop
\* thread had not ended, after force-closing the socket
C6_Witness ==
    /\ main_pc = "returned"
    /\ result.success
    /\ result.form_data.rid # 0
    /\ ~timed_out
    /\ srv_pc # "exited"
    /\ ~socket_open

\* a GET, or a request to a path other than the endpoint
OffRoute(r) == r.method = "GET" \/ r.path # "endpoint"

BadContentLength == header.kind \in {"missing", "invalid"} \/ header.n < 0

\* do_POST has gone past its Content-Length gate on the POST under study
PastGate == post_pc \in {"read", "parse", "parsed", "returned"}

\* C12: a POST to the endpoint path whose Content-Length is missing or
\* invalid (not a number, or negative) is answered 400 with a deadline reset
\* and returns without reading a body.
C12_BadContentLengthRejected ==
    (BadContentLength /\ PastGate)
    => /\ post_pc = "returned"
       /\ post_status = 400
       /\ reset_timeout_callback => post_reset
       /\ body = NoBody

\* the cap the handler is to apply: max_total_size when one is configured,
\* the built-in 20 MiB otherwise
ConfiguredCap ==
    IF max_total_size = Unset THEN DEFAULT_MAX_BODY_SIZE ELSE max_total_size

\* do_POST answered 413 at the Content-Length gate
RejectedAtGate ==
    /\ post_pc = "returned"
    /\ post_status = 413
    /\ parse_result = NotParsed
    /\ body = NoBody

\* C13: for every configured max_total_size (0 included) the effective cap
\* is that value, and 20 MiB only when none is configured; a Content-Length
\* above the cap is answered 413 with a deadline reset and without reading
\* the body, and a Content-Length equal to the cap passes the gate.
C13_ContentLengthGate ==
    (header.kind = "int" /\ header.n >= 0 /\ PastGate)
    => /\ header.n > ConfiguredCap
          => /\ RejectedAtGate
             /\ reset_timeout_callback => post_reset
       /\ header.n <= ConfiguredCap => ~RejectedAtGate

\* C14: when the saving of an uploaded file fails, the handler answers 500
\* and returns: the deadline is not reset, no slot is filled, shutdown_event
\* is not set and the accept loop is not stopped, so that a later valid POST
\* is still handled.
C14_StorageFailureKeepsRun ==
    [][SaveSteps
       => \A u \in Uploads :
             (SaveRaises(u) /\ SaveFiles(u))
             => /\ resp' = Response(nreq, 500, "storage_error")
                /\ srv_pc' = "select"
                /\ UNCHANGED <<timerVars, slotVars, sockVars, sd_sleeping,
                               upload_dir>>]_vars

\* C14 witness: the first POST had the right token, failed in storage and
\* was answered 500; the timer of serve() is still the pending one, the
\* caller still waits, and a second POST has passed the CSRF check and the
\* storage and is about to be answered with the success page
C14_Witness ==
    /\ resp = Response(1, 500, "storage_error")
    /\ nreq = 2
    /\ srv_pc = "send_success"
    /\ h_form_data.rid = 2
    /\ form_data = NoForm
    /\ ~shutdown_event
    /\ reset_timeout_on_error
    /\ Len(timers) = 1
    /\ timers[1].st = "waiting"
    /\ main_pc = "wait"

\* parse_multipart got as far as its loop over the parts of a multipart body
PartsParsed ==
    /\ content_type = "multipart"
    /\ parse_result.error \in {"none", "file_size"}

\* the body holds a file part whose content is longer than limit
HasFileOver(limit) ==
    \E i \in DOMAIN body.parts : body.parts[i].is_file /\ body.parts[i].size > limit

\* C15: for every configured max_file_size (0 included), a file part longer
\* than it makes parse_multipart fail and the handler answer 413 with a
\* deadline reset; a body whose file parts are all within the limit (a part
\* of exactly max_file_size bytes included) is accepted.
C15_FileSizeLimit ==
    (PartsParsed /\ max_file_size # Unset)
    => /\ HasFileOver(max_file_size)
          => /\ parse_result.error = "file_size"
             /\ post_pc = "returned"
                => /\ post_status = 413
                   /\ reset_timeout_callback => post_reset
       /\ ~HasFileOver(max_file_size) => parse_result.error = "none"

\* C16: for every body and every configured max_total_size (0 included)
\* with the body longer than it, parse_multipart fails with the total-size
\* error before it extracts the boundary or reads any part.
C16_TotalSizeChecked ==
    (/\ parse_result # NotParsed
     /\ max_total_size # Unset
     /\ body.len > max_total_size)
    => parse_result = ParseResult("total_size", FALSE, 0)

\* C17: shutdown_event is set only while exactly one of the success slot
\* and the timeout slot is filled: never while both are empty, never while
\* both are filled.
C17_EventMeansOneSlot == shutdown_event => (success # timed_out)

\* C18: in serve() the listener is bound, and wrapped by TLS when a
\* certificate is configured, before the URL is emitted and before the
\* browser is launched; the browser is launched before the deadline timer
\* is armed, and the timer is armed before the accept-loop thread starts;
\* when bind or the TLS setup fails, nothing of this happens.
C18_StartupOrder ==
    /\ url_emitted => (server_bound /\ (use_ssl => tls_wrapped))
    /\ browser_launched => (launch_browser /\ url_emitted)
    /\ timers # <<>> => (url_emitted /\ (launch_browser => browser_launched))
    /\ srv_pc # "not_started" => timers # <<>>
    /\ main_pc = "raised"
       => /\ ~url_emitted
          /\ ~browser_launched
          /\ timers = <<>>
          /\ srv_pc = "not_started"

\* C18 witness: with a certificate and a browser to launch, the socket was
\* wrapped, the browser launched, the timer armed and the accept loop
\* started
C18_Witness ==
    /\ use_ssl
    /\ launch_browser
    /\ tls_wrapped
    /\ browser_launched
    /\ Len(timers) = 1
    /\ srv_pc = "select"
    /\ main_pc = "wait"

(* ------------------------------- C19 ---------------------------------- *)

\* C19: after a successful submission has been published, the server
\* handles no further request: once success is set, the accept loop takes
\* no new connection and no handler writes a response.
C19_NoRequestAfterSuccess ==
    [][success => (nreq' = nreq /\ resp' = resp)]_vars

(* ------------------------------- C20 ---------------------------------- *)

\* the field names a body submits besides the token
OtherNames(pairs) == {pairs[i][1] : i \in 1..Len(pairs)} \ {CsrfField}

\* the values a body submits under one name, in submission order
RECURSIVE ValuesOf(_, _)
ValuesOf(pairs, name) ==
    IF pairs = <<>> THEN <<>>
    ELSE LET n == Len(pairs)
             before == ValuesOf(SubSeq(pairs, 1, n - 1), name)
         IN  IF pairs[n][1] = name THEN Append(before, pairs[n][2]) ELSE before

\* one value stands for itself, several for their list
FieldOf(vals) ==
    IF Len(vals) = 1 THEN StrVal(vals[1]) ELSE [kind |-> "list", vals |-> vals]

\* the fields of a body other than the token, each with the values that
\* were submitted for it
AsSubmitted(pairs) ==
    [n \in OtherNames(pairs) |-> FieldOf(ValuesOf(pairs, n))]

\* the same fields, a value that is not valid UTF-8 replaced by the empty
\* string
AsDecoded(pairs) ==
    [n \in OtherNames(pairs) |->
        FieldOf([i \in 1..Len(ValuesOf(pairs, n)) |->
                    IF ValuesOf(pairs, n)[i] = NotUtf8 THEN ""
                    ELSE ValuesOf(pairs, n)[i]])]

\* the bodies that pass the CSRF check
AcceptedBodies == {b \in BytePostBodies : BodyStatus(b) = 200}

\* serve() has returned a submission
ReturnedSuccess == main_pc = "returned" /\ result.success

MaxFields == 3

\* the fields a body can hold: two names, two texts and a content that is
\* not valid UTF-8
FieldNames == {"x", "y"}
FieldValues == {"a", "b", NotUtf8}
FieldPairs == FieldNames \X FieldValues
FieldBodies == SeqsUpTo(FieldPairs, MaxFields)

\* a constructed server that is not serving, while a function of
\* multipart.py is called on its own
CallInit ==
    /\ reset_timeout_on_error = FALSE
    /\ max_file_size = Unset
    /\ max_total_size = Unset
    /\ use_ssl = FALSE
    /\ launch_browser = FALSE
    /\ reset_timeout_callback = FALSE
    /\ PostIdle
    /\ InitRun

\* the function returns
Return(value) ==
    /\ call_ret' = value
    /\ call_pc' = "returned"
    /\ UNCHANGED <<call_fn, call_arg, dir_files, cfgVars, postVars, runVars>>

\* body.decode('utf-8') does not raise
DecodesAsUtf8(pairs) == \A i \in 1..Len(pairs) : pairs[i][2] # NotUtf8

\* parse_qs(..., keep_blank_values=True): every name with the list of its
\* values in the order of the body
RECURSIVE ParseQs(_)
ParseQs(pairs) ==
    IF pairs = <<>> THEN [n \in {} |-> <<>>]
    ELSE LET n == Len(pairs)
             parsed == ParseQs(SubSeq(pairs, 1, n - 1))
             name == pairs[n][1]
         IN  [k \in DOMAIN parsed \cup {name} |->
                IF k # name THEN parsed[k]
                ELSE IF name \in DOMAIN parsed
                     THEN Append(parsed[name], pairs[n][2])
                     ELSE <<pairs[n][2]>>]

\* parse_urlencoded: a key with one value maps to the string, a repeated
\* key to the list; a body that is not valid UTF-8 gives no field at all
ParseUrlencoded(pairs) ==
    IF ~DecodesAsUtf8(pairs) THEN EmptyFields
    ELSE [k \in DOMAIN ParseQs(pairs) |->
            IF Len(ParseQs(pairs)[k]) = 1
            THEN StrVal(ParseQs(pairs)[k][1])
            ELSE [kind |-> "list", vals |-> ParseQs(pairs)[k]]]

\* a body is handed to one of the decoders
InitDecoders ==
    /\ call_fn \in {"parse_urlencoded", "parse_multipart"}
    /\ call_arg \in FieldBodies
    /\ call_pc = "called"
    /\ call_ret = EmptyFields
    /\ dir_files = <<>>
    /\ CallInit

\* parse_urlencoded(body).fields
CallParseUrlencoded ==
    /\ call_pc = "called"
    /\ call_fn = "parse_urlencoded"
    /\ Return(ParseUrlencoded(call_arg))

\* parse_multipart(body, content_type).fields of a body of field parts
CallParseMultipart ==
    /\ call_pc = "called"
    /\ call_fn = "parse_multipart"
    /\ Return(ParseFields(call_arg))

NextDecoders ==
    \/ CallParseUrlencoded
    \/ CallParseMultipart

SpecDecoders == InitDecoders /\ [][NextDecoders]_vars

(* ------------------------------- C21 ---------------------------------- *)

\* a decoder has returned the fields of the body it was given
DecoderReturned ==
    /\ call_fn \in {"parse_urlencoded", "parse_multipart"}
    /\ call_pc = "returned"

\* the text a field value is reported as
ShownAs(v) == IF v = NotUtf8 THEN "" ELSE v

\* the entry of name n holds the values submitted under n, in submission
\* order: a list when there are several, a single string when there is one
EntryFollowsBody(fields, pairs, n) ==
    LET vals == ValuesOf(pairs, n)
        k == Len(vals)
    IN  k >= 1
        => /\ n \in DOMAIN fields
           /\ fields[n].kind = (IF k >= 2 THEN "list" ELSE "str")
           /\ Len(fields[n].vals) = k
           /\ \A i \in 1..k : fields[n].vals[i] = ShownAs(vals[i])

\* C21 as stated: for every field name that occurs k >= 2 times in a POST
\* body, urlencoded or multipart, the FormData entry is a list of exactly k
\* values in submission order; a name that occurs once yields a single
\* string.
C21_RepeatedFieldsAreLists ==
    DecoderReturned
    => \A n \in FieldNames : EntryFollowsBody(call_ret, call_arg, n)

\* C21 amended: the same for every multipart body and for every urlencoded
\* body that is valid UTF-8; a urlencoded body that is not valid UTF-8
\* yields no field at all.
C21_RepeatedFieldsOfDecodedBody ==
    DecoderReturned
    => IF call_fn = "parse_urlencoded" /\ ~DecodesAsUtf8(call_arg)
       THEN call_ret = EmptyFields
       ELSE \A n \in FieldNames : EntryFollowsBody(call_ret, call_arg, n)

\* C21 witness: a multipart body with x submitted as a, then y, then x as b
\* was decoded to the list a, b for x and a single string for y
C21_Witness ==
    /\ DecoderReturned
    /\ call_fn = "parse_multipart"
    /\ call_arg = <<<<"x", "a">>, <<"y", "a">>, <<"x", "b">>>>
    /\ call_ret["x"] = [kind |-> "list", vals |-> <<"a", "b">>]
    /\ call_ret["y"] = StrVal("a")

(* ------------------------------- C22 ---------------------------------- *)

\* the upload holds two or more file parts under one field name
RepeatedFileInput(u) ==
    \E i, j \in DOMAIN u.names : i # j /\ u.names[i] = u.names[j]

\* C22: a valid multipart submission with k >= 2 file parts under the same
\* field name, in a directory that takes the files, goes on to the success
\* page with the k files stored and listed in file_metadata.
C22_RepeatedFileInputSucceeds ==
    [][SaveSteps
       => \A u \in Uploads :
             (RepeatedFileInput(u) /\ u.save_ok /\ SaveFiles(u))
             => /\ srv_pc' = "send_success"
                /\ h_file_metadata' = MetaOf(nreq, u.nfiles)
                /\ nreq \in upload_dir']_vars

(* ---------------------- sanitize_filename(filename) ------------------- *)

\* characters in one filename handed to sanitize_filename
MaxNameLen == 3

\* the length sanitize_filename truncates to
NAME_MAX == 255

\* a str is a sequence of characters; a character outside ASCII or of
\* control is written by its code point
Letter == "a"
Space == " "
Dot == "."
Hyphen == "-"
Underscore == "_"
Slash == "/"
Backslash == "\\"
LessThan == "<"
EAcute == "U+00E9"
LineFeed == "U+000A"

\* the string 'upload'
UploadName == <<"u", "p", "l", "o", "a", "d">>

\* the characters of the filenames a client can send
NameChars ==
    {Letter, Space, Dot, Slash, Backslash, LessThan, EAcute, LineFeed}

FileNames == SeqsUpTo(NameChars, MaxNameLen)

\* re \w on a str: letters, digits and the underscore of any script
IsWord(c) ==
    c \in {Letter, Underscore, EAcute, "1", "2", "3", "t"}
          \cup {UploadName[i] : i \in DOMAIN UploadName}

\* re \s on a str: every Unicode whitespace
IsSpace(c) == c \in {Space, LineFeed}

\* filename.replace('\\', '/')
ReplaceBackslashes(name) ==
    [i \in DOMAIN name |-> IF name[i] = Backslash THEN Slash ELSE name[i]]

\* os.path.basename(filename): what follows the last slash
Basename(name) ==
    LET slashes == {i \in DOMAIN name : name[i] = Slash}
        last == IF slashes = {} THEN 0
                ELSE CHOOSE i \in slashes : \A j \in slashes : j <= i
    IN  SubSeq(name, last + 1, Len(name))

\* re.sub(r'[^\w\s.-]', '_', filename)
ReplaceProblematic(name) ==
    [i \in DOMAIN name |->
        IF IsWord(name[i]) \/ IsSpace(name[i]) \/ name[i] \in {Dot, Hyphen}
        THEN name[i] ELSE Underscore]

\* filename[:255]
Truncate(name) ==
    IF Len(name) > NAME_MAX THEN SubSeq(name, 1, NAME_MAX) ELSE name

\* if not filename or filename in ('.', '..'): filename = 'upload'
OrUpload(name) ==
    IF name = <<>> \/ name = <<Dot>> \/ name = <<Dot, Dot>>
    THEN UploadName ELSE name

\* sanitize_filename(filename)
SanitizeFilename(name) ==
    OrUpload(Truncate(ReplaceProblematic(Basename(ReplaceBackslashes(name)))))

\* sanitize_filename is called with a filename
InitSanitize ==
    /\ call_fn = "sanitize_filename"
    /\ call_arg \in FileNames
    /\ call_pc = "called"
    /\ call_ret = <<>>
    /\ dir_files = <<>>
    /\ CallInit

CallSanitizeFilename ==
    /\ call_pc = "called"
    /\ call_fn = "sanitize_filename"
    /\ Return(SanitizeFilename(call_arg))

SpecSanitize == InitSanitize /\ [][CallSanitizeFilename]_vars

(* ------------------------------- C24 ---------------------------------- *)

\* the characters of [A-Za-z0-9 _.-]
AllowedChars ==
    {Letter, Space, Underscore, Dot, Hyphen, "1", "2", "3", "t"}
    \cup {UploadName[i] : i \in DOMAIN UploadName}

\* C24: sanitize_filename returns, for every filename, a name that is not
\* empty, is not '.' or '..', has at most 255 characters and consists only
\* of characters of [A-Za-z0-9 _.-], so that it holds no path separator.
C24_SanitizedNameIsSafe ==
    (call_fn = "sanitize_filename" /\ call_pc = "returned")
    => /\ call_ret # <<>>
       /\ call_ret # <<Dot>>
       /\ call_ret # <<Dot, Dot>>
       /\ Len(call_ret) <= NAME_MAX
       /\ \A i \in DOMAIN call_ret : call_ret[i] \in AllowedChars

(* ------------- save_uploaded_file(uploaded_file, directory) ----------- *)

\* calls of save_uploaded_file on one directory
MaxSaves == 3

\* the filenames of the uploads: names that collide with one another and
\* with the names the function makes up
SaveNames ==
    {<<Letter>>, <<Letter, Underscore, "1">>, <<Letter, Dot, "t">>,
     <<Letter, Underscore, "1", Dot, "t">>}

\* a directory maps the name of each of its files to the call that wrote
\* it, 0 for a file that was there before
Directories == {<<>>} \cup {[n \in {name} |-> 0] : name \in {<<Letter>>}}

\* os.path.splitext(filename): the extension starts at the last dot unless
\* only dots come before it
SplitExt(name) ==
    LET dots == {i \in DOMAIN name : name[i] = Dot}
        last == IF dots = {} THEN 0
                ELSE CHOOSE i \in dots : \A j \in dots : j <= i
    IN  IF last > 0 /\ \E i \in 1 .. last - 1 : name[i] # Dot
        THEN <<SubSeq(name, 1, last - 1), SubSeq(name, last, Len(name))>>
        ELSE <<name, <<>>>>

\* str(counter) for the counters a directory of this size can need
Str(counter) == <<<<"1", "2", "3", "4", "5", "6", "7", "8", "9">>[counter]>>

\* the while loop: f'{base}_{counter}{ext}' for the first counter whose
\* path does not exist
RECURSIVE FirstFree(_, _, _)
FirstFree(dir, parts, counter) ==
    LET candidate == parts[1] \o <<Underscore>> \o Str(counter) \o parts[2]
    IN  IF candidate \in DOMAIN dir
        THEN FirstFree(dir, parts, counter + 1)
        ELSE candidate

\* variant of SavePath: the sanitised name is used whether it exists or not
SavePathUnchecked(dir, filename) == SanitizeFilename(filename)

\* the path save_uploaded_file writes to, relative to the directory
SavePath(dir, filename) ==
    LET name == SanitizeFilename(filename)
    IN  IF name \in DOMAIN dir
        THEN FirstFree(dir, SplitExt(name), 1)
        ELSE name

\* open(filepath, 'wb') and write: the file is created or replaced
Written(dir, path, call) ==
    [p \in DOMAIN dir \cup {path} |-> IF p = path THEN call ELSE dir[p]]

\* a handler is about to save the uploads named in call_arg, in order, to
\* a directory
InitSave ==
    /\ call_fn = "save_uploaded_file"
    /\ call_arg \in SeqsUpTo(SaveNames, MaxSaves)
    /\ call_pc = "called"
    /\ call_ret = <<>>
    /\ dir_files \in Directories
    /\ CallInit

\* save_uploaded_file on the next upload; call_ret collects the paths
\* returned
CallSaveUploadedFile ==
    /\ call_fn = "save_uploaded_file"
    /\ call_pc = "called"
    /\ call_arg # <<>>
    /\ LET path == SavePath(dir_files, Head(call_arg))
       IN  /\ dir_files' = Written(dir_files, path, Len(call_ret) + 1)
           /\ call_ret' = Append(call_ret, path)
    /\ call_arg' = Tail(call_arg)
    /\ call_pc' = IF Tail(call_arg) = <<>> THEN "returned" ELSE "called"
    /\ UNCHANGED <<call_fn, cfgVars, postVars, runVars>>

SpecSave == InitSave /\ [][CallSaveUploadedFile]_vars

(* ------------------------------- C23 ---------------------------------- *)

\* C23: for any upload directory and any sequence of save_uploaded_file
\* calls whose sanitised names collide, the returned paths are pairwise
\* distinct, every stored file still holds what its call wrote, and no call
\* replaces or removes a file that was in the directory before it.
C23_SavedPathsDistinct ==
    /\ [](call_fn = "save_uploaded_file"
          => /\ \A i, j \in DOMAIN call_ret :
                   i # j => call_ret[i] # call_ret[j]
             /\ \A i \in DOMAIN call_ret :
                   /\ call_ret[i] \in DOMAIN dir_files
                   /\ dir_files[call_ret[i]] = i)
    /\ [][\A p \in DOMAIN dir_files :
             /\ p \in DOMAIN dir_files'
             /\ dir_files'[p] = dir_files[p]]_vars

\* C23 witness: in a directory that held a, the uploads a, a and a_1 were
\* stored as a_1, a_2 and a_1_1
C23_Witness ==
    /\ call_fn = "save_uploaded_file"
    /\ call_pc = "returned"
    /\ <<Letter>> \in DOMAIN dir_files
    /\ dir_files[<<Letter>>] = 0
    /\ call_ret = << <<Letter, Underscore, "1">>,
                     <<Letter, Underscore, "2">>,
                     <<Letter, Underscore, "1", Underscore, "1">> >>

(* ----------------------- parse_size_limit(limit_str) ------------------ *)

\* characters in one size limit string
MaxLimitLen == 3

\* the multiplier of K; M and G are its square and cube
KIB == 1024

\* ARABIC-INDIC DIGIT THREE, a decimal digit outside ASCII
ArabicThree == "U+0663"

\* the characters of the strings handed to parse_size_limit
LimitChars == {"1", "2", ArabicThree, "k", "M", "g", Space, "x"}

\* an Optional[str]: None, or a string
NoneArg == [none |-> TRUE, str |-> <<>>]
StrArg(s) == [none |-> FALSE, str |-> s]
LimitArgs == {NoneArg} \cup {StrArg(s) : s \in SeqsUpTo(LimitChars, MaxLimitLen)}

\* a Python int, which has no upper bound: its digits in base KIB, the
\* lowest first and the highest not zero
RECURSIVE Limbs(_)
Limbs(n) == IF n = 0 THEN <<>> ELSE <<n % KIB>> \o Limbs(n \div KIB)

\* the int times KIB to the power e
RECURSIVE TimesKibPower(_, _)
TimesKibPower(limbs, e) ==
    IF e = 0 \/ limbs = <<>> THEN limbs
    ELSE TimesKibPower(<<0>> \o limbs, e - 1)

\* what parse_size_limit gives: None, an int, or a ValueError raised
NoneRet == [kind |-> "None", n |-> <<>>]
IntRet(n) == [kind |-> "int", n |-> n]
ValueErrorRet == [kind |-> "ValueError", n |-> <<>>]

\* str.strip(): leading and trailing whitespace removed
RECURSIVE Strip(_)
Strip(s) ==
    IF s = <<>> THEN s
    ELSE IF IsSpace(Head(s)) THEN Strip(Tail(s))
    ELSE IF IsSpace(s[Len(s)]) THEN Strip(SubSeq(s, 1, Len(s) - 1))
    ELSE s

\* str.upper()
Upper(s) ==
    [i \in DOMAIN s |->
        CASE s[i] = "k" -> "K"
          [] s[i] = "g" -> "G"
          [] s[i] = "x" -> "X"
          [] OTHER -> s[i]]

\* re \d on a str: the decimal digits of every script, with the value int()
\* gives them
IsDigit(c) == c \in {"1", "2", ArabicThree}
DigitValue(c) == IF c = "1" THEN 1 ELSE IF c = "2" THEN 2 ELSE 3

\* int(match.group(1))
RECURSIVE IntOf(_)
IntOf(digits) ==
    IF digits = <<>> THEN 0
    ELSE 10 * IntOf(SubSeq(digits, 1, Len(digits) - 1))
         + DigitValue(digits[Len(digits)])

\* variant of Multiplier: M and G stand for the same factor
MultiplierSameMG(unit) == IF unit = "K" THEN 1 ELSE 2

\* multipliers[unit], as the power of KIB: 1024, 1024 * 1024 and
\* 1024 * 1024 * 1024
Multiplier(unit) ==
    IF unit = "K" THEN 1
    ELSE IF unit = "M" THEN 2
    ELSE 3

\* re.match(r'^(\d+)([KMG])?$', limit_str): the two groups, or no match
Match(s) ==
    LET n == Len(s)
        unit == IF n > 0 /\ s[n] \in {"K", "M", "G"} THEN <<s[n]>> ELSE <<>>
        digits == SubSeq(s, 1, n - Len(unit))
    IN  IF digits # <<>> /\ \A i \in DOMAIN digits : IsDigit(digits[i])
        THEN [matched |-> TRUE, digits |-> digits, unit |-> unit]
        ELSE [matched |-> FALSE, digits |-> <<>>, unit |-> <<>>]

\* parse_size_limit(limit_str)
ParseSizeLimit(arg) ==
    IF arg.none \/ arg.str = <<>> THEN NoneRet
    ELSE LET m == Match(Upper(Strip(arg.str)))
         IN  IF ~m.matched THEN ValueErrorRet
             ELSE IF m.unit # <<>>
                  THEN IntRet(TimesKibPower(Limbs(IntOf(m.digits)),
                                            Multiplier(m.unit[1])))
                  ELSE IntRet(Limbs(IntOf(m.digits)))

\* parse_size_limit is called with a limit string
InitLimit ==
    /\ call_fn = "parse_size_limit"
    /\ call_arg \in LimitArgs
    /\ call_pc = "called"
    /\ call_ret = NoneRet
    /\ dir_files = <<>>
    /\ CallInit

\* the call returns or raises
CallParseSizeLimit ==
    /\ call_pc = "called"
    /\ call_fn = "parse_size_limit"
    /\ call_ret' = ParseSizeLimit(call_arg)
    /\ call_pc' = IF call_ret' = ValueErrorRet THEN "raised" ELSE "returned"
    /\ UNCHANGED <<call_fn, call_arg, dir_files, cfgVars, postVars, runVars>>

SpecLimit == InitLimit /\ [][CallParseSizeLimit]_vars

(* ------------------------------- C25 ---------------------------------- *)

\* the call of parse_size_limit is over
LimitParsed ==
    /\ call_fn = "parse_size_limit"
    /\ call_pc \in {"returned", "raised"}

\* the factor a suffix stands for, as the number of times 1024 is
\* multiplied in
FactorOf(c) ==
    IF c \in {"k", "K"} THEN 1
    ELSE IF c \in {"m", "M"} THEN 2
    ELSE 3

\* s is one or more digits of the set ds, optionally followed by K, M or G
\* in either case
IsSize(s, ds) ==
    \E k \in 1 .. Len(s) :
        /\ \A i \in 1 .. k : s[i] \in ds
        /\ \/ k = Len(s)
           \/ k = Len(s) - 1 /\ s[Len(s)] \in {"k", "K", "m", "M", "g", "G"}

\* the number of bytes such a string stands for
SizeOf(s) ==
    LET n == Len(s)
    IN  IF s[n] \in {"k", "K", "m", "M", "g", "G"}
        THEN TimesKibPower(Limbs(IntOf(SubSeq(s, 1, n - 1))), FactorOf(s[n]))
        ELSE Limbs(IntOf(s))

\* C25 as stated: a string of decimal digits d optionally followed by K, M
\* or G in either case gives d times 1, 1024, 1024^2 or 1024^3; the empty
\* string and None give None; every other input raises ValueError.
C25_SizeLimitParsed ==
    LimitParsed
    => IF call_arg.none \/ call_arg.str = <<>> THEN call_ret = NoneRet
       ELSE IF IsSize(call_arg.str, {"1", "2"})
            THEN call_ret = IntRet(SizeOf(call_arg.str))
            ELSE call_ret = ValueErrorRet

\* C25 amended: the string is first stripped of surrounding whitespace, and
\* the decimal digits of every script count as digits; with that, the
\* result is the product for a well-formed string, None for the empty
\* string and None, and a ValueError for every other input.  The result
\* depends on the input alone.
C25_StrippedSizeLimitParsed ==
    LimitParsed
    => IF call_arg.none \/ call_arg.str = <<>> THEN call_ret = NoneRet
       ELSE IF IsSize(Strip(call_arg.str), {"1", "2", ArabicThree})
            THEN call_ret = IntRet(SizeOf(Strip(call_arg.str)))
            ELSE call_ret = ValueErrorRet

\* C25 witness: ' 2k' was parsed to 2048
C25_Witness ==
    /\ LimitParsed
    /\ call_arg = StrArg(<<Space, "2", "k">>)
    /\ call_ret = IntRet(Limbs(2048))

(* ------------- run_readwebform: the output and the exit code ---------- *)

\* the exit codes of core.py
EXIT_SUCCESS == 0
EXIT_INTERNAL_ERROR == 1
EXIT_TIMEOUT == 5

\* the field names of a form: two that make a shell variable name and one
\* that does not
OutputNames == {"x", "y", "x-y"}

\* is_valid_var_name('WEBFORM_' + name.upper())
IsValidVarName(name) == name \in {"x", "y"}

\* the values a field of FormData.fields can have
OutputValues == {StrVal("a"), [kind |-> "list", vals |-> <<"a", "b">>]}

\* every FormData.fields over these names and values
OutputFields ==
    UNION {[names -> OutputValues] : names \in SUBSET OutputNames}

\* args.print_env, args.envfile or neither
OutputModes == {"json", "envfile", "print_env"}

\* what serve() returned, and the arguments that select the output
RunArg(ok, fields, mode, writable) ==
    [success |-> ok, fields |-> fields, mode |-> mode, writable |-> writable]

RunArgs ==
    {RunArg(TRUE, f, m, w) : f \in OutputFields, m \in OutputModes,
                             w \in BOOLEAN}
    \cup {RunArg(FALSE, EmptyFields, m, w) : m \in OutputModes, w \in BOOLEAN}

\* sanitize_env_value(value) raises AttributeError: a list has no replace
SanitizeEnvValueRaises(value) == value.kind = "list"

\* format_env_output(fields) raises: a field with a valid variable name
\* has a value that cannot be sanitised
FormatEnvOutputRaises(fields) ==
    \E n \in DOMAIN fields :
        IsValidVarName(n) /\ SanitizeEnvValueRaises(fields[n])

\* run_readwebform from the return of serve() to its own return
ExitCode(arg) ==
    IF ~arg.success THEN EXIT_TIMEOUT
    ELSE IF arg.mode = "print_env"
         THEN IF FormatEnvOutputRaises(arg.fields)
              THEN EXIT_INTERNAL_ERROR ELSE EXIT_SUCCESS
    ELSE IF arg.mode = "envfile"
         THEN IF FormatEnvOutputRaises(arg.fields) \/ ~arg.writable
              THEN EXIT_INTERNAL_ERROR ELSE EXIT_SUCCESS
    ELSE EXIT_SUCCESS

\* serve() has returned inside run_readwebform
InitOutput ==
    /\ call_fn = "run_readwebform"
    /\ call_arg \in RunArgs
    /\ call_pc = "called"
    /\ call_ret = -1
    /\ dir_files = <<>>
    /\ CallInit

\* the output is written and run_readwebform returns its exit code
CallRunReadwebform ==
    /\ call_pc = "called"
    /\ call_fn = "run_readwebform"
    /\ Return(ExitCode(call_arg))

SpecOutput == InitOutput /\ [][CallRunReadwebform]_vars

(* ------------------------------- C26 ---------------------------------- *)

\* C26: run_readwebform returns exit code 0 whenever serve() reports
\* success, in every output mode and for every shape of field value
\* (provided the envfile can be written), and 5 whenever serve() reports no
\* success.
C26_ExitCodeFollowsSuccess ==
    (call_fn = "run_readwebform" /\ call_pc = "returned" /\ call_arg.writable)
    => call_ret = (IF call_arg.success THEN EXIT_SUCCESS ELSE EXIT_TIMEOUT)

(* ------------------------------- C27 ---------------------------------- *)

\* the timers whose thread has entered _on_timeout
Fired == {i \in DOMAIN timers : timers[i].st \notin {"waiting", "cancelled"}}

\* C27: in any run _on_timeout is executed at most once, and once it has
\* been entered no further timer is armed: a reset_timeout() of a handler
\* that finishes after the deadline has fired arms nothing.
C27_TimeoutFiresOnce ==
    /\ [](Cardinality(Fired) <= 1)
    /\ [][Fired # {} => Len(timers') = Len(timers)]_vars

(* ------------------------------- C28 ---------------------------------- *)

\* C28: once a successful submission has cancelled the deadline, later
\* resets are no-ops: a recoverable error handled after the success arms no
\* new timer, and no timeout is recorded after a success.
C28_NoTimerAfterSuccess ==
    [][success => /\ Len(timers') = Len(timers)
                  /\ timed_out' = timed_out]_vars

(* ------------------ reset_timeout() called directly ------------------- *)

\* FormServer.reset_timeout() called once on the server object by a thread
\* other than the request handler: cancel the current timer if there is
\* one, then arm a new one only when reset_timeout_on_error is set
CallResetTimeout ==
    /\ call_pc = "off"
    /\ call_fn' = "reset_timeout"
    /\ call_pc' = "returned"
    /\ LET cancelled == IF timeout_timer # 0
                        THEN Cancelled(timers, timeout_timer)
                        ELSE timers
       IN  IF reset_timeout_on_error
           THEN /\ timers' = Armed(cancelled)
                /\ timeout_timer' = Len(timers) + 1
                /\ since_arm' = 0
           ELSE /\ timers' = cancelled
                /\ UNCHANGED <<timeout_timer, since_arm>>
    /\ UNCHANGED <<call_arg, call_ret, dir_files, cfgVars, postVars,
                   startVars, sockVars, slotVars, reset_timeout_callback,
                   mainVars, srvVars, sd_sleeping>>

NextReset ==
    \/ NextLive
    \/ CallResetTimeout

SpecReset == Init /\ [][NextReset]_vars

(* ------------------------------- C29 ---------------------------------- *)

\* the step in which the direct call of reset_timeout() runs
ResetCalled == call_pc = "off" /\ call_pc' = "returned"

\* C29: reset_timeout() called while reset_timeout_on_error is false is a
\* no-op: the pending deadline timer is neither cancelled nor replaced and
\* keeps its remaining time.
C29_ResetWithoutFlagIsNoOp ==
    [][(ResetCalled /\ ~reset_timeout_on_error)
          => /\ timers' = timers
             /\ timeout_timer' = timeout_timer]_vars

(* ------------------------------- C30 ---------------------------------- *)

\* a timer thread has closed the listener and is about to set, or has set,
\* shutdown_event
StoppedBy(i) == timers[i].st \in {"set_event", "done"}

\* a timer thread has set shutdown_event
WokenByTimeout == \E i \in DOMAIN timers : timers[i].st = "done"

\* C30: _on_timeout stops the accept loop and closes the listening socket
\* before it sets shutdown_event, so once a timeout has woken the caller the
\* listening socket is closed and no further connection is accepted, also
\* when the accept-loop thread is held by an idle client.
C30_TimeoutClosesListenerFirst ==
    /\ [](\A i \in DOMAIN timers : StoppedBy(i) => ~socket_open)
    /\ [][WokenByTimeout => nreq' = nreq]_vars

\* the deadline fired and woke the caller while the accept-loop thread was
\* held by a client that had sent nothing
C30_Witness ==
    /\ WokenByTimeout
    /\ srv_pc = "reading"
    /\ main_pc = "join"
    /\ nreq < MaxRequests

(* ------------------------------- C31 ---------------------------------- *)

\* a deadline timer that is still waiting for its interval to pass
Pending == {i \in DOMAIN timers : timers[i].st = "waiting"}

\* C31: when serve() has returned, on the success path as on the timeout
\* path, no deadline timer is pending and the listening socket is closed.
C31_ReturnLeavesNothingOpen ==
    main_pc = "returned" => (Pending = {} /\ ~socket_open)

(* ------------------------------- C32 ---------------------------------- *)

\* C32: when the TLS setup fails, for whatever reason, serve() has closed
\* the bound listener by the time the failure reaches the caller, and it
\* has armed no deadline timer, started no accept loop and launched no
\* browser.
C32_TlsFailureClosesListener ==
    (main_pc = "raised" /\ server_bound)
        => /\ ~socket_open
           /\ timers = <<>>
           /\ srv_pc = "not_started"
           /\ ~browser_launched

(* ------------------------------- C33 ---------------------------------- *)

\* the POST was refused because of a size limit
SizeLimitFailure ==
    \/ parse_result = NotParsed /\ header.kind = "int"
                                /\ header.n > EffectiveMax(max_total_size)
    \/ parse_result.error \in {"total_size", "file_size"}

\* C33: a multipart POST whose Content-Type carries no boundary parameter
\* is answered 400, not 413, and resets the deadline; only failures of a
\* size limit are answered 413.
C33_NoBoundaryIsBadRequest ==
    post_pc = "returned"
        => /\ parse_result.error = "no_boundary"
                => (post_status = 400 /\ post_reset = reset_timeout_callback)
           /\ post_status = 413 => SizeLimitFailure

(* ----------------- one part of a multipart body decoded ---------------- *)

\* the longest content of a part
MaxContent == 2

\* CARRIAGE RETURN
CarriageReturn == "U+000D"

\* the bytes of the content of a part
ContentBytes == {Letter, CarriageReturn, LineFeed}
Contents == SeqsUpTo(ContentBytes, MaxContent)

\* what stands between the content of a part and the next boundary line
Separators == {<<CarriageReturn, LineFeed>>, <<LineFeed>>}

\* the filename= parameter of a Content-Disposition header: absent, or
\* present with a value that may be the empty string
Param(present, value) == [present |-> present, value |-> value]
FilenameParams ==
    {Param(FALSE, <<>>), Param(TRUE, <<>>), Param(TRUE, <<Letter>>)}

\* a part as the client sends it
SentPart(filename, content, separator) ==
    [filename |-> filename, content |-> content, separator |-> separator]
SentParts ==
    {SentPart(f, c, s) : f \in FilenameParams, c \in Contents, s \in Separators}

\* the bytes of the part between its header block and the next boundary,
\* as split_multipart_body hands them on
DataOf(part) == part.content \o part.separator

\* bytes.rstrip(b'\r\n'): every trailing CR and LF byte is removed
RECURSIVE Rstrip(_)
Rstrip(bytes) ==
    IF bytes # <<>> /\ bytes[Len(bytes)] \in {CarriageReturn, LineFeed}
    THEN Rstrip(SubSeq(bytes, 1, Len(bytes) - 1))
    ELSE bytes

\* parse_part: content = content.rstrip(b'\r\n')
ParsePart(part) == Rstrip(DataOf(part))

\* extract_value_from_header(disposition, 'filename'):
\* match.group(1) or match.group(2), None without a match
ExtractValueFromHeader(param) ==
    IF param.present /\ param.value # <<>> THEN StrArg(param.value) ELSE NoneArg

\* an entry of FormData.files with the bytes save_uploaded_file writes for
\* it and the size the metadata reports, or an entry of FormData.fields
FileEntry(content) ==
    [kind |-> "file", content |-> content, written |-> content,
     size |-> Len(content)]
FieldEntry(content) ==
    [kind |-> "field", content |-> content, written |-> <<>>, size |-> 0]

\* the body of the loop of parse_multipart: "if filename:" decides between
\* add_file and add_field
RecordPart(part) ==
    LET filename == ExtractValueFromHeader(part.filename)
        content  == ParsePart(part)
    IN  IF ~filename.none /\ filename.str # <<>>
        THEN FileEntry(content)
        ELSE FieldEntry(content)

InitParts ==
    /\ call_fn = "parse_multipart"
    /\ call_arg \in SentParts
    /\ call_pc = "called"
    /\ call_ret = <<>>
    /\ dir_files = <<>>
    /\ CallInit

\* a body of one part is decoded and its file, if it is one, is saved
CallRecordPart ==
    /\ call_pc = "called"
    /\ call_fn = "parse_multipart"
    /\ Return(RecordPart(call_arg))

SpecParts == InitParts /\ [][CallRecordPart]_vars

(* ------------------------------- C34 ---------------------------------- *)

\* the decoding of the part is over
PartRecorded == call_fn = "parse_multipart" /\ call_pc = "returned"

\* C34: a part whose Content-Disposition carries a filename= parameter, the
\* empty value included, is recorded in FormData.files, and a part without
\* the parameter is recorded in FormData.fields.
C34_FilenameMakesFilePart ==
    PartRecorded
        => (call_ret.kind = "file" <=> call_arg.filename.present)

(* ------------------------------- C35 ---------------------------------- *)

\* C35: for a file part the bytes written and the size reported are the
\* content as it was sent, with only the boundary separator removed:
\* content that ends in CR or LF bytes keeps them.
C35_FileContentKept ==
    (PartRecorded /\ call_ret.kind = "file")
        => /\ call_ret.written = call_arg.content
           /\ call_ret.size = Len(call_arg.content)

(* ------------------------------- C36 ---------------------------------- *)

\* C36: when a handler has sent the success page for a submission, serve()
\* returns success with the data of an answered submission; the caller never
\* receives the timeout result while a client was told that its form was
\* submitted.
C36_AnsweredMeansSuccess ==
    (main_pc = "returned" /\ acked # {})
        => /\ result # TimeoutResult
           /\ result.success
           /\ result.form_data.rid \in acked

(* ------------------------------- C37 ---------------------------------- *)

\* C37: the form_data and the file_metadata that a successful serve()
\* returns together stem from the same submission.
C37_ResultOfOneSubmission ==
    (main_pc = "returned" /\ result.success)
        => result.form_data.rid = result.file_metadata.rid

(* ------------------------------- C38 ---------------------------------- *)

\* the three attributes of the success slot have been written
SuccessSlotFilled ==
    /\ success
    /\ form_data.rid # 0
    /\ file_metadata.rid # 0

\* C38: each writer fills its slot before it sets shutdown_event: while the
\* event is set, timed_out is true or form_data, file_metadata and success
\* have all been written; the tuple serve() returns is the timeout tuple or
\* a success with both a form_data and a file_metadata that were published.
C38_SlotFilledBeforeEvent ==
    /\ shutdown_event => (timed_out \/ SuccessSlotFilled)
    /\ main_pc = "returned"
          => \/ result = TimeoutResult
             \/ /\ result.success
                /\ result.form_data.rid # 0
                /\ result.file_metadata.rid # 0

\* C38 witness: the caller was woken by a submission, found timed_out false
\* and is reading a slot that is filled
C38_Witness ==
    /\ main_pc = "read_success"
    /\ shutdown_event
    /\ ~timed_out
    /\ SuccessSlotFilled

(* ------------------------------- C39 ---------------------------------- *)

\* the status codes of the responses that refuse a POST
RefusalCodes == {400, 403, 404, 413}

\* C39: a POST answered with 400, 403, 404 or 413 writes nothing into
\* upload_dir: files are written only by the handler of a request whose
\* token was verified, in its save loop.
C39_RefusedPostStoresNothing ==
    /\ [](resp.code \in RefusalCodes => resp.rid \notin upload_dir)
    /\ [][upload_dir' # upload_dir
            => /\ srv_pc = "save_files"
               /\ h_form_data.rid = nreq
               /\ upload_dir' = upload_dir \cup {nreq}]_vars

\* C39 witness: the files of a first, verified submission are stored, and a
\* second POST carrying a wrong token was answered 403 and stored nothing
C39_Witness ==
    /\ resp.code = 403
    /\ resp.rid = 2
    /\ upload_dir = {1}

====
